---- MODULE Spec2Model ----
(***************************************************************************)
(* A model of the code summarizer: the LLM client's retry executor and     *)
(* error classification (src/src/summarizer/gemini_llm.py), the batch      *)
(* engine (src/src/summarizer/file_processor.py) and the configuration     *)
(* manager (src/src/config/settings.py).                                   *)
(*                                                                         *)
(* Durations are integers in milliseconds.  Texts that the code searches   *)
(* for substrings are sequences of one-character strings, so that          *)
(* str.lower() and the `in` operator are computed, not assumed.            *)
(***************************************************************************)
EXTENDS Integers, Sequences, FiniteSets, TLC

(***************************************************************************)
(* Bounds of the model.                                                    *)
(***************************************************************************)
\* max_retries of the RetryConfigs explored: 0..MaxRetriesBound
MaxRetriesBound == 3
\* random.random() takes the values j/RandSteps, j in 0..RandSteps-1
RandSteps == 3
\* lengths of the file lists handed to summarize_files_batch: 0..MaxFiles
MaxFiles == 5
\* values of the batch_size option: 1..MaxBatchSize
MaxBatchSize == 3
MaxResults == 2
\* The longest file list and the largest max_retries of the batches whose tasks
\* call the provider step by step.
MaxFilesLive == 3
MaxProviderRetries == 1

(***************************************************************************)
(* Program constants.                                                      *)
(***************************************************************************)
DEFAULT_MAX_RETRIES == 3
DEFAULT_INITIAL_DELAY == 1000
DEFAULT_MAX_DELAY == 10000
DEFAULT_BACKOFF_FACTOR == 2
DEFAULT_BATCH_SIZE == 5
DEFAULT_PORT == 24312
MAX_PORT == 65535
DEFAULT_MAX_LENGTH == 500
MAX_MAX_LENGTH == 2000
MIN_API_KEY_LENGTH == 10
MAX_FILE_SIZE_BYTES == 204800

None == "None"

(***************************************************************************)
(* Texts.                                                                  *)
(***************************************************************************)
UpperChars == <<"A","B","C","D","E","F","G","H","I","J","K","L","M","N","O","P","Q","R","S","T","U","V","W","X","Y","Z">>
LowerChars == <<"a","b","c","d","e","f","g","h","i","j","k","l","m","n","o","p","q","r","s","t","u","v","w","x","y","z">>

LowerChar(c) ==
    IF \E i \in 1..Len(UpperChars) : UpperChars[i] = c
    THEN LowerChars[CHOOSE i \in 1..Len(UpperChars) : UpperChars[i] = c]
    ELSE c

\* str.lower()
Lower(s) == [i \in 1..Len(s) |-> LowerChar(s[i])]

\* needle in hay
Contains(needle, hay) ==
    \E i \in 1..(Len(hay) - Len(needle) + 1) :
        SubSeq(hay, i, i + Len(needle) - 1) = needle

KW_quota == <<"q","u","o","t","a">>
KW_rate_limit == <<"r","a","t","e"," ","l","i","m","i","t">>
KW_token == <<"t","o","k","e","n">>
KW_too_large == <<"t","o","o"," ","l","a","r","g","e">>
KW_api_key == <<"a","p","i"," ","k","e","y">>
KW_authentication == <<"a","u","t","h","e","n","t","i","c","a","t","i","o","n">>
KW_token_limit == <<"t","o","k","e","n"," ","l","i","m","i","t">>

\* "Rate limit exceeded: "
PFX_rate == <<"R","a","t","e"," ","l","i","m","i","t"," ","e","x","c","e","e","d","e","d",":"," ">>
\* "Content too large: "
PFX_large == <<"C","o","n","t","e","n","t"," ","t","o","o"," ","l","a","r","g","e",":"," ">>
\* "Authentication error: "
PFX_auth == <<"A","u","t","h","e","n","t","i","c","a","t","i","o","n"," ","e","r","r","o","r",":"," ">>
\* "API error: "
PFX_api == <<"A","P","I"," ","e","r","r","o","r",":"," ">>
\* "Content blocked: "
PFX_blocked == <<"C","o","n","t","e","n","t"," ","b","l","o","c","k","e","d",":"," ">>
\* "Empty response from Gemini"
MSG_empty == <<"E","m","p","t","y"," ","r","e","s","p","o","n","s","e"," ","f","r","o","m"," ","G","e","m","i","n","i">>
\* "Unexpected error: "
PFX_unexpected == <<"U","n","e","x","p","e","c","t","e","d"," ","e","r","r","o","r",":"," ">>

\* Texts of the exceptions the provider raises in the runs explored.
ProviderErrorTexts == {
    <<"Q","u","o","t","a"," ","e","x","c","e","e","d","e","d">>,
    <<"R","A","T","E"," ","L","I","M","I","T"," ","h","i","t">>,
    <<"t","o","k","e","n"," ","q","u","o","t","a"," ","o","u","t">>,
    <<"T","o","o"," ","m","a","n","y"," ","T","o","k","e","n","s">>,
    <<"P","a","y","l","o","a","d"," ","T","o","o"," ","L","a","r","g","e">>,
    <<"b","a","d"," ","t","o","k","e","n"," ","i","n"," ","A","P","I"," ","k","e","y">>,
    <<"A","P","I"," ","K","e","y"," ","i","n","v","a","l","i","d">>,
    <<"A","u","t","h","e","n","t","i","c","a","t","i","o","n"," ","f","a","i","l","e","d">>,
    <<"C","o","n","n","e","c","t","i","o","n"," ","r","e","s","e","t">>,
    <<"a","p","i"," ","k","e","y"," ","r","a","t","e"," ","l","i","m","i","t">> }

\* Texts of the non-LLM exceptions a function handed to with_retry raises.
FuncErrorTexts == {
    <<"T","o","k","e","n"," ","l","i","m","i","t"," ","e","x","c","e","e","d","e","d">>,
    <<"R","e","q","u","e","s","t"," ","T","O","O"," ","L","A","R","G","E">>,
    <<"t","i","m","e","o","u","t">>,
    <<"t","o","k","e","n"," ","e","x","p","i","r","e","d">> }

\* prompt_feedback.block_reason of a blocked response
BlockReasons == { <<"S","A","F","E","T","Y">>, <<"O","T","H","E","R">> }

\* response.text of a response that carries text
SummaryTexts == { "summary A", "summary B" }

(***************************************************************************)
(* LLMError, RetryConfig.                                                  *)
(***************************************************************************)
\* LLMError(message, is_retryable)
LLMError(message, retryable) ==
    [cls |-> "LLMError", msg |-> message, is_retryable |-> retryable]

\* any other Exception(message); it has no is_retryable attribute
OtherException(message) ==
    [cls |-> "Exception", msg |-> message, is_retryable |-> None]

\* no exception
NoException == [cls |-> "None", msg |-> <<>>, is_retryable |-> None]

RetryConfig(m, i, d, b) ==
    [max_retries |-> m, initial_delay |-> i, max_delay |-> d, backoff_factor |-> b]

DefaultRetryConfig ==
    RetryConfig(DEFAULT_MAX_RETRIES, DEFAULT_INITIAL_DELAY,
                DEFAULT_MAX_DELAY, DEFAULT_BACKOFF_FACTOR)

\* The RetryConfigs explored; the default one is always among them.
RetryConfigs ==
    {DefaultRetryConfig} \cup
    { RetryConfig(m, i, DEFAULT_MAX_DELAY, b) :
        m \in 0..MaxRetriesBound, i \in {DEFAULT_INITIAL_DELAY, 6000}, b \in {1, 2} }

(***************************************************************************)
(* State of the retry executor and of GeminiLLM.summarize.                 *)
(***************************************************************************)
VARIABLES
    r_pc,            \* "idle" | "attempt" | "sleeping" | "returned" | "raised"
    r_caller,        \* "direct": with_retry(func, ...); "summarize": GeminiLLM.summarize
    retry_config,    \* the RetryConfig of the call
    attempt,         \* the loop index of with_retry
    calls,           \* invocations of func by this with_retry call
    provider_calls,  \* calls of model.generate_content_async by this summarize call
    sleeps,          \* the durations handed to asyncio.sleep, in order
    failures,        \* the number of invocations of func that raised
    last_failure,    \* the exception func raised last
    last_response,   \* what the provider did at the last call of _make_request
    r_result,        \* the value returned
    r_error          \* the exception propagated

retryVars == <<r_pc, r_caller, retry_config, attempt, calls, provider_calls,
               sleeps, failures, last_failure, last_response, r_result, r_error>>

(***************************************************************************)
(* State of summarize_files_batch and of its per-file tasks.               *)
(***************************************************************************)
VARIABLES
    b_pc,         \* "idle" | "gather" | "pause" | "done" | "raised"
    file_paths,   \* the list of paths handed to the call
    batch_size,   \* options.get('batch_size', DEFAULT_BATCH_SIZE)
    b_i,          \* the loop variable i: the offset of the current batch
    task_pc,      \* per position: "none" | "created" | "reading" | "summarizing" | "done"
    task_out,     \* per position: what the task's coroutine returned or raised
    completion,   \* the positions of the current batch's tasks, in order of completion
    all_results,  \* the list the call builds and returns
    chunks,       \* len(batch) of every batch dispatched, in order
    pauses,       \* batch_num of every batch that asyncio.sleep(1) followed, in order
    max_inflight  \* the largest number of tasks that were in flight together

batchVars == <<b_pc, file_paths, batch_size, b_i, task_pc, task_out, completion,
               all_results, chunks, pauses, max_inflight>>

(***************************************************************************)
(* State of the provider calls made by the tasks of a batch.               *)
(***************************************************************************)
VARIABLES
    task_calls,      \* per position: the calls of func() made by the task's with_retry
    llm_max_retries  \* llm.retry_config.max_retries of the client handed to the batch

providerVars == <<task_calls, llm_max_retries>>

(***************************************************************************)
(* State of the ConfigManager and of what it reads and writes.             *)
(* An optional value is a sequence: <<>> (absent, None) or <<v>>.          *)
(***************************************************************************)
VARIABLES
    cached,        \* _config_manager._config: <<>> (None) or <<Config>>
    env_api_key,   \* os.environ['GOOGLE_API_KEY']: <<>> (unset) or <<string>>
    env_port,      \* os.environ['PORT']: <<>> (unset) or <<text>>
    config_file,   \* config.json: [state |-> "absent" | "malformed" | "json", data |-> dict]
    c_op,          \* the last operation on the ConfigManager, "none" before any
    c_raised,      \* whether that operation raised
    c_candidate,   \* the dict that operation handed to Config(**dict) last: <<>> or <<dict>>
    c_returned,    \* the Config that operation returned: <<>> or <<Config>>
    c_updates,     \* the `updates` of that operation when it is update_config: <<>> or <<dict>>
    c_io,          \* what the file system did to that operation's write of config.json, "none" without a write
    c_first        \* the Config of the first successful get_config since the last
                   \* update_config, reset_config or process start: <<>> or <<Config>>

configVars == <<cached, env_api_key, env_port, config_file, c_op, c_raised,
                c_candidate, c_returned, c_updates, c_io, c_first>>

(***************************************************************************)
(* The state of a find_code_files call.                                    *)
(***************************************************************************)
VARIABLES
    d_pc,          \* "idle", "scanning", "returned"
    d_tree,        \* the entries below root_dir
    d_patterns,    \* gitignore.patterns
    d_stack,       \* the scan_directory calls in progress, the innermost last
    code_files,    \* the list find_code_files returns
    d_errors,      \* "Error scanning {directory}" logged: [dir, item that raised]
    d_denied,      \* "Permission denied accessing: {directory}" logged: the directories
    d_ignored,     \* "Ignoring (gitignore)" logged: the paths
    d_visited      \* the directories scan_directory was called on

discoveryVars == <<d_pc, d_tree, d_patterns, d_stack, code_files, d_errors, d_denied,
                   d_ignored, d_visited>>

(***************************************************************************)
(* The state of a summarize_file call.                                     *)
(***************************************************************************)
VARIABLES
    f_pc,          \* "idle", "stat", "reading", "summarizing", "returned"
    f_file,        \* the file at file_path: [size, content, access]
    f_read,        \* whether f.read() was called on the file
    f_llm_calls,   \* the calls of llm.summarize
    f_result       \* the dict returned, Pending before

fileVars == <<f_pc, f_file, f_read, f_llm_calls, f_result>>

(***************************************************************************)
(* The state of write_summaries_to_file and of summarize_directory.        *)
(***************************************************************************)
VARIABLES
    w_pc,          \* "idle", "open", "writing", "closed", "raised"
    w_caller,      \* "direct" or "summarize_directory"
    w_results,     \* results
    w_root,        \* root_dir
    w_index,       \* the results the loop has written
    w_target,      \* the file at output_path
    w_before,      \* the file at output_path when the call began
    o_pc,          \* "idle", "discovering", "writing", "returned", "raised"
    o_output_path, \* output_path: <<>> (None) or <<path>>
    o_results,     \* the list summarize_directory returns
    o_llm_calls    \* the per-file tasks of the call that invoked the LLM client

writeVars == <<w_pc, w_caller, w_results, w_root, w_index, w_target, w_before>>

directoryVars == <<o_pc, o_output_path, o_results, o_llm_calls>>

(***************************************************************************)
(* The state of the protocol server.                                       *)
(***************************************************************************)
VARIABLES
    llm,           \* self.llm: <<>> (None) or <<the api_key the client was built with>>
    s_tool,        \* the name of the last tool call
    s_args,        \* its arguments
    s_response,    \* the text call_tool returned
    s_exception,   \* what the handler raised: <<>> or <<the message>>
    s_propagated,  \* an exception left call_tool
    s_client,      \* the client _ensure_llm gave to the call: <<>> when none
    s_summarized,  \* the call invoked summarize_file or summarize_directory
    s_llm_invoked, \* the call invoked the LLM
    s_twin,        \* the response the same configure call gives for another valid api_key
    s_key          \* the api_key of the last successful configure that gave one

serverVars == <<llm, s_tool, s_args, s_response, s_exception, s_propagated, s_client,
                s_summarized, s_llm_invoked, s_twin, s_key>>

(***************************************************************************)
(* The state of a command line process.                                    *)
(***************************************************************************)
VARIABLES
    cli_pc,          \* "none", "started", "exited"
    cli_flags,       \* the flags of the command
    cli_output,      \* what the command printed last
    cli_raised,      \* "" or the exception that ended the command
    cli_before,      \* what get_config() gave when the command began: <<>> when it raises
    cli_file_before  \* config.json when the command began

cliVars == <<cli_pc, cli_flags, cli_output, cli_raised, cli_before, cli_file_before>>

vars == <<retryVars, batchVars, configVars, discoveryVars, fileVars, writeVars,
          directoryVars, serverVars, cliVars, providerVars>>

RECURSIVE Pow(_, _)
Pow(b, e) == IF e = 0 THEN 1 ELSE b * Pow(b, e - 1)

Min(a, b) == IF a < b THEN a ELSE b

\* Off by one: the last attempt is taken to be the one after max_retries.
is_last_attempt_late(a, cfg) == a = cfg.max_retries + 1

\* is_last_attempt = attempt == retry_config.max_retries
is_last_attempt(a, cfg) == a = cfg.max_retries

\* The text of a non-LLM exception is matched without .lower().
is_retryable_case_sensitive(e) ==
    IF e.cls = "LLMError"
    THEN e.is_retryable
    ELSE IF Contains(KW_token_limit, e.msg) \/ Contains(KW_too_large, e.msg)
         THEN FALSE
         ELSE TRUE

\* the retryability with_retry computes for an exception
is_retryable(e) ==
    IF e.cls = "LLMError"
    THEN e.is_retryable
    ELSE IF Contains(KW_token_limit, Lower(e.msg)) \/ Contains(KW_too_large, Lower(e.msg))
         THEN FALSE
         ELSE TRUE

\* the delay is not capped by max_delay
backoff_delay_uncapped(cfg, a) == cfg.initial_delay * Pow(cfg.backoff_factor, a)

\* delay = min(initial_delay * backoff_factor ** attempt, max_delay)
backoff_delay(cfg, a) ==
    Min(cfg.initial_delay * Pow(cfg.backoff_factor, a), cfg.max_delay)

\* Jitter of +-200% in place of +-20%: delay + delay * 2 * (2 * random.random() - 1)
final_delay_wide_jitter(delay, j) ==
    (delay * (4 * j - RandSteps)) \div RandSteps

\* final_delay = delay + delay * 0.2 * (2 * random.random() - 1), with
\* random.random() = j / RandSteps:  delay * (8*RandSteps + 4*j) / (10*RandSteps)
final_delay(delay, j) ==
    (delay * (8 * RandSteps + 4 * j)) \div (10 * RandSteps)

\* The token / too large test placed before the quota / rate limit test.
classify_token_first(text) ==
    LET error_msg == Lower(text) IN
    IF Contains(KW_token, error_msg) \/ Contains(KW_too_large, error_msg)
    THEN LLMError(PFX_large \o text, FALSE)
    ELSE IF Contains(KW_quota, error_msg) \/ Contains(KW_rate_limit, error_msg)
    THEN LLMError(PFX_rate \o text, TRUE)
    ELSE IF Contains(KW_api_key, error_msg) \/ Contains(KW_authentication, error_msg)
    THEN LLMError(PFX_auth \o text, FALSE)
    ELSE LLMError(PFX_api \o text, TRUE)

\* The except clause of _make_request: the error it raises for a caught
\* exception whose text is `text`.
classify(text) ==
    LET error_msg == Lower(text) IN
    IF Contains(KW_quota, error_msg) \/ Contains(KW_rate_limit, error_msg)
    THEN LLMError(PFX_rate \o text, TRUE)
    ELSE IF Contains(KW_token, error_msg) \/ Contains(KW_too_large, error_msg)
    THEN LLMError(PFX_large \o text, FALSE)
    ELSE IF Contains(KW_api_key, error_msg) \/ Contains(KW_authentication, error_msg)
    THEN LLMError(PFX_auth \o text, FALSE)
    ELSE LLMError(PFX_api \o text, TRUE)

\* What the provider does at one call: a response with text, a response
\* without text (with or without prompt_feedback), or an exception.
\* kind "text": response.text is `value`; "blocked": no text, block reason
\* `text`; "empty": no text, no prompt_feedback; "raise": an exception whose
\* str() is `text`.
ProviderOutcomes ==
    [kind : {"text"}, text : {<<>>}, value : SummaryTexts]
    \cup [kind : {"blocked"}, text : BlockReasons, value : {None}]
    \cup [kind : {"empty"}, text : {<<>>}, value : {None}]
    \cup [kind : {"raise"}, text : ProviderErrorTexts, value : {None}]

\* no call of the provider yet
NoResponse == [kind |-> "none", text |-> <<>>, value |-> None]

\* The exception raised inside the try block of _make_request, before the
\* except clause sees it.
raised_in_try(po) ==
    CASE po.kind = "blocked" -> LLMError(PFX_blocked \o po.text, FALSE)
      [] po.kind = "empty" -> LLMError(MSG_empty, TRUE)
      [] po.kind = "raise" -> OtherException(po.text)

\* Whether the except clause of _make_request catches what the try block raised.
caught_by_make_request(e) == e.cls \in {"LLMError", "Exception"}

\* _make_request: the outcome of one attempt of summarize.
\* `except Exception` encloses the whole try block, the two raises of
\* LLMError included: they are caught and classified by their text.
make_request(po) ==
    IF po.kind = "text"
    THEN [ok |-> TRUE, value |-> po.value, err |-> NoException]
    ELSE LET e == raised_in_try(po) IN
         [ok |-> FALSE, value |-> None,
          err |-> IF caught_by_make_request(e) THEN classify(e.msg) ELSE e]

\* What a function handed directly to with_retry does at one call.
FuncOutcomes ==
    [ok : {TRUE}, value : SummaryTexts, err : {NoException}]
    \cup { [ok |-> FALSE, value |-> None, err |-> LLMError(<<"t">>, b)] : b \in BOOLEAN }
    \cup { [ok |-> FALSE, value |-> None, err |-> OtherException(t)] : t \in FuncErrorTexts }

\* The except clause of summarize around with_retry.
summarize_reraise(e) ==
    IF e.cls = "LLMError" THEN e ELSE LLMError(PFX_unexpected \o e.msg, FALSE)

\* What the caller of with_retry propagates.
propagated(caller, e) == IF caller = "summarize" THEN summarize_reraise(e) ELSE e

(***************************************************************************)
(* Operations of the retry executor.                                       *)
(***************************************************************************)
RetryInit ==
    /\ r_pc = "idle"
    /\ r_caller = "direct"
    /\ retry_config = DefaultRetryConfig
    /\ attempt = 0
    /\ calls = 0
    /\ provider_calls = 0
    /\ sleeps = <<>>
    /\ failures = 0
    /\ last_failure = NoException
    /\ last_response = NoResponse
    /\ r_result = None
    /\ r_error = NoException

\* Entering the for loop of with_retry: range(max_retries + 1).
EnterLoop(caller, cfg) ==
    /\ r_pc = "idle"
    /\ r_caller' = caller
    /\ retry_config' = cfg
    /\ attempt' = 0
    /\ calls' = 0
    /\ provider_calls' = 0
    /\ sleeps' = <<>>
    /\ failures' = 0
    /\ last_failure' = NoException
    /\ last_response' = NoResponse
    /\ r_result' = None
    /\ r_error' = NoException
    /\ r_pc' = IF 0 < cfg.max_retries + 1 THEN "attempt" ELSE "returned"

\* with_retry(func, retry_config, request_id), called with any function.
with_retry ==
    \E cfg \in RetryConfigs : EnterLoop("direct", cfg)

\* GeminiLLM(api_key, retry_config).summarize(code, language, options)
summarize ==
    \E cfg \in RetryConfigs : EnterLoop("summarize", cfg)

\* One iteration of the loop of with_retry: func is awaited and gives `out`;
\* j is the draw of random.random().
LoopBody(out, j) ==
    /\ calls' = calls + 1
    /\ IF out.ok
       THEN /\ r_pc' = "returned"
            /\ r_result' = out.value
            /\ UNCHANGED <<sleeps, failures, last_failure, r_error>>
       ELSE /\ failures' = failures + 1
            /\ last_failure' = out.err
            /\ IF is_last_attempt(attempt, retry_config) \/ ~is_retryable(out.err)
               THEN /\ r_pc' = "raised"
                    /\ r_error' = propagated(r_caller, out.err)
                    /\ UNCHANGED <<sleeps, r_result>>
               ELSE /\ r_pc' = "sleeping"
                    /\ sleeps' = Append(sleeps,
                                   final_delay(backoff_delay(retry_config, attempt), j))
                    /\ UNCHANGED <<r_result, r_error>>
    /\ UNCHANGED <<r_caller, retry_config, attempt>>

\* An attempt of a with_retry call on an arbitrary function.
AttemptFunc ==
    /\ r_pc = "attempt"
    /\ r_caller = "direct"
    /\ \E out \in FuncOutcomes, j \in 0..(RandSteps - 1) : LoopBody(out, j)
    /\ UNCHANGED <<provider_calls, last_response>>

\* An attempt of summarize: _make_request calls the provider once.
AttemptMakeRequest ==
    /\ r_pc = "attempt"
    /\ r_caller = "summarize"
    /\ \E po \in ProviderOutcomes, j \in 0..(RandSteps - 1) :
          /\ provider_calls' = provider_calls + 1
          /\ last_response' = po
          /\ LoopBody(make_request(po), j)

\* asyncio.sleep(final_delay) returns: the loop goes to its next index, and
\* falls out of the loop (returning None) when there is none.
WakeUp ==
    /\ r_pc = "sleeping"
    /\ attempt' = attempt + 1
    /\ r_pc' = IF attempt + 1 < retry_config.max_retries + 1 THEN "attempt" ELSE "returned"
    /\ UNCHANGED <<r_caller, retry_config, calls, provider_calls, sleeps, failures,
                   last_failure, last_response, r_result, r_error>>

\* The caller takes the value or the exception; the client is idle again.
Complete ==
    /\ r_pc \in {"returned", "raised"}
    /\ r_pc' = "idle"
    /\ r_caller' = "direct"
    /\ retry_config' = DefaultRetryConfig
    /\ attempt' = 0
    /\ calls' = 0
    /\ provider_calls' = 0
    /\ sleeps' = <<>>
    /\ failures' = 0
    /\ last_failure' = NoException
    /\ last_response' = NoResponse
    /\ r_result' = None
    /\ r_error' = NoException

RetryNext ==
    \/ with_retry
    \/ summarize
    \/ AttemptFunc
    \/ AttemptMakeRequest
    \/ WakeUp
    \/ Complete

(***************************************************************************)
(* summarize_file and summarize_files_batch.                               *)
(***************************************************************************)
\* The k-th path of a file list: the paths of a list are distinct.
PathOf(k) == "src/f" \o ToString(k) \o ".py"

FileLists == { [k \in 1..n |-> PathOf(k)] : n \in 0..MaxFiles }

\* The values of options.get('batch_size', DEFAULT_BATCH_SIZE) explored.
BatchSizes == (1..MaxBatchSize) \cup {DEFAULT_BATCH_SIZE}

Pending == [kind |-> "pending", file_path |-> None, summary |-> None, error |-> None]

\* A dict returned by summarize_file.
FileResult(path, summary, error) ==
    [kind |-> "result", file_path |-> path, summary |-> summary, error |-> error]

\* An exception that leaves the coroutine of summarize_file.
TaskException(message) ==
    [kind |-> "exception", file_path |-> None, summary |-> message, error |-> None]

too_large_result(path) ==
    FileResult(path, "File is too large to summarize.", "file_too_large")

decode_error_result(path) ==
    FileResult(path, "Could not read file (appears to be binary).", "decode_error")

processing_error_result(path, message) ==
    FileResult(path, "Error processing file: " \o message, "processing_error")

success_result(path, summary) == FileResult(path, summary, None)

\* What llm.summarize returns for the file at `path`.
SummaryOf(path) == "summary of " \o path

\* The positions of the batch at offset i: file_paths[i:i + batch_size].
BatchPositions(i, bs, n) == (i + 1)..Min(i + bs, n)

\* The positions whose task is created and not done, given the tasks' states.
InFlightOf(pcs) == { k \in DOMAIN pcs : pcs[k] \in {"created", "reading", "summarizing"} }

InFlight == InFlightOf(task_pc)

\* The exception is appended as it is.
handle_result_unconverted(path, r) == r

\* A gather result that is an exception becomes a batch_error entry.
handle_result(path, r) ==
    IF r.kind = "exception"
    THEN FileResult(path, "Batch processing failed: " \o r.summary, "batch_error")
    ELSE r

\* The results in the order of completion, as asyncio.as_completed gives them.
gather_as_completed(positions, outs, done_order) ==
    [j \in 1..Cardinality(positions) |->
        IF j <= Len(done_order) THEN outs[done_order[j]] ELSE Pending]

\* asyncio.gather(*tasks, return_exceptions=True): the results in the order
\* of the tasks, whatever the order of completion.
gather(positions, outs, done_order) ==
    [j \in 1..Cardinality(positions) |-> outs[CHOOSE k \in positions :
                                               Cardinality({m \in positions : m < k}) = j - 1]]

\* Returning as soon as one task is done, as asyncio.wait(FIRST_COMPLETED) does.
gather_first_completed(positions, pcs) == \E k \in positions : pcs[k] = "done"

\* gather returns once every task of the batch is done.
gather_complete(positions, pcs) == \A k \in positions : pcs[k] = "done"

\* Off by one: a pause also follows a last batch that is full.
needs_pause_inclusive(i, bs, n) == i + bs <= n

\* if i + batch_size < len(file_paths)
needs_pause(i, bs, n) == i + bs < n

BatchInit ==
    /\ b_pc = "idle"
    /\ file_paths = <<>>
    /\ batch_size = DEFAULT_BATCH_SIZE
    /\ b_i = 0
    /\ task_pc = <<>>
    /\ task_out = <<>>
    /\ completion = <<>>
    /\ all_results = <<>>
    /\ chunks = <<>>
    /\ pauses = <<>>
    /\ max_inflight = 0

\* The body of the for loop up to the await of gather: the tasks of the
\* batch at offset i are created.
DispatchBatch(i, paths, bs, pcs) ==
    LET batch == BatchPositions(i, bs, Len(paths))
        created == [k \in 1..Len(paths) |-> IF k \in batch THEN "created" ELSE pcs[k]]
    IN
    /\ b_i' = i
    /\ task_pc' = created
    /\ chunks' = Append(chunks, Cardinality(batch))
    /\ completion' = <<>>
    /\ max_inflight' = IF Cardinality(InFlightOf(created)) > max_inflight
                       THEN Cardinality(InFlightOf(created)) ELSE max_inflight
    /\ b_pc' = "gather"

\* for i in range(0, len(file_paths), batch_size): a step of zero raises
\* ValueError.
range_raises(bs) == bs = 0

\* summarize_files_batch(paths, llm, options) with options' batch_size bs.
summarize_files_batch_call(paths, bs) ==
    /\ b_pc = "idle"
    /\ file_paths' = paths
    /\ batch_size' = bs
    /\ all_results' = <<>>
    /\ pauses' = <<>>
    /\ task_out' = [k \in 1..Len(paths) |-> Pending]
    /\ IF range_raises(bs)
       THEN /\ b_pc' = "raised"
            /\ b_i' = 0
            /\ task_pc' = [k \in 1..Len(paths) |-> "none"]
            /\ UNCHANGED <<chunks, completion, max_inflight>>
       ELSE IF Len(paths) = 0
       THEN /\ b_pc' = "done"
            /\ b_i' = 0
            /\ task_pc' = <<>>
            /\ UNCHANGED <<chunks, completion, max_inflight>>
       ELSE DispatchBatch(0, paths, bs, [k \in 1..Len(paths) |-> "none"])

\* summarize_files_batch(file_paths, llm, options) is called.
summarize_files_batch ==
    \E paths \in FileLists, bs \in BatchSizes : summarize_files_batch_call(paths, bs)

\* A task ends: its coroutine returned or raised `out`.
TaskEnds(k, out) ==
    /\ task_pc' = [task_pc EXCEPT ![k] = "done"]
    /\ task_out' = [task_out EXCEPT ![k] = out]
    /\ completion' = Append(completion, k)

\* summarize_file up to its first await: stat and the size test.
TaskStart(k) ==
    /\ task_pc[k] = "created"
    /\ \/ TaskEnds(k, too_large_result(file_paths[k]))
       \/ TaskEnds(k, TaskException("handler failed"))
       \/ /\ task_pc' = [task_pc EXCEPT ![k] = "reading"]
          /\ UNCHANGED <<task_out, completion>>
    /\ UNCHANGED <<b_pc, file_paths, batch_size, b_i, all_results, chunks, pauses,
                   max_inflight>>

\* The read of the file's content completes.
TaskRead(k) ==
    /\ task_pc[k] = "reading"
    /\ \/ TaskEnds(k, decode_error_result(file_paths[k]))
       \/ TaskEnds(k, TaskException("handler failed"))
       \/ /\ task_pc' = [task_pc EXCEPT ![k] = "summarizing"]
          /\ UNCHANGED <<task_out, completion>>
    /\ UNCHANGED <<b_pc, file_paths, batch_size, b_i, all_results, chunks, pauses,
                   max_inflight>>

\* llm.summarize returns or raises.
TaskSummarized(k) ==
    /\ task_pc[k] = "summarizing"
    /\ \/ TaskEnds(k, success_result(file_paths[k], SummaryOf(file_paths[k])))
       \/ TaskEnds(k, processing_error_result(file_paths[k], "API error: unavailable"))
       \/ TaskEnds(k, TaskException("handler failed"))
    /\ UNCHANGED <<b_pc, file_paths, batch_size, b_i, all_results, chunks, pauses,
                   max_inflight>>

\* The loop variable stands still.
next_offset_stuck(i, bs) == i

\* The value of i that range yields after i.
next_offset(i, bs) == i + bs

\* The for loop's next iteration, or its end and the return of all_results.
LoopNext ==
    IF next_offset(b_i, batch_size) < Len(file_paths)
    THEN DispatchBatch(next_offset(b_i, batch_size), file_paths, batch_size, task_pc)
    ELSE /\ b_pc' = "done"
         /\ UNCHANGED <<b_i, task_pc, chunks, completion, max_inflight>>

\* gather returns: the results of the batch are appended, then the call
\* pauses or goes on with the loop.
GatherDone ==
    LET n == Len(file_paths)
        batch == BatchPositions(b_i, batch_size, n)
        batch_results == gather(batch, task_out, completion)
    IN
    /\ b_pc = "gather"
    /\ gather_complete(batch, task_pc)
    /\ all_results' = all_results \o
          [j \in 1..Cardinality(batch) |-> handle_result(file_paths[b_i + j], batch_results[j])]
    /\ IF needs_pause(b_i, batch_size, n)
       THEN /\ b_pc' = "pause"
            /\ pauses' = Append(pauses, (b_i \div batch_size) + 1)
            /\ UNCHANGED <<b_i, task_pc, chunks, completion, max_inflight>>
       ELSE /\ LoopNext
            /\ UNCHANGED pauses
    /\ UNCHANGED <<file_paths, batch_size, task_out>>

\* asyncio.sleep(1) returns: the loop goes on with the next batch.
PauseDone ==
    /\ b_pc = "pause"
    /\ LoopNext
    /\ UNCHANGED <<file_paths, batch_size, task_out, all_results, pauses>>

\* The caller takes the list returned.
BatchComplete ==
    /\ b_pc = "done"
    /\ b_pc' = "idle"
    /\ file_paths' = <<>>
    /\ batch_size' = DEFAULT_BATCH_SIZE
    /\ b_i' = 0
    /\ task_pc' = <<>>
    /\ task_out' = <<>>
    /\ completion' = <<>>
    /\ all_results' = <<>>
    /\ chunks' = <<>>
    /\ pauses' = <<>>
    /\ max_inflight' = 0

BatchNext ==
    \/ summarize_files_batch
    \/ \E k \in DOMAIN task_pc : TaskStart(k)
    \/ \E k \in DOMAIN task_pc : TaskRead(k)
    \/ \E k \in DOMAIN task_pc : TaskSummarized(k)
    \/ GatherDone
    \/ PauseDone
    \/ BatchComplete

(***************************************************************************)
(* A batch whose tasks call the provider through with_retry, call by call. *)
(***************************************************************************)
LiveFileLists == { paths \in FileLists : Len(paths) <= MaxFilesLive }

ProviderRetries == 0..MaxProviderRetries

ProviderInit ==
    /\ task_calls = <<>>
    /\ llm_max_retries = DEFAULT_MAX_RETRIES

\* summarize_files_batch is called with a client whose retry_config has
\* max_retries m; batch_size may be 0.
BatchWithProvider ==
    \E paths \in LiveFileLists, bs \in {0} \cup BatchSizes, m \in ProviderRetries :
        /\ summarize_files_batch_call(paths, bs)
        /\ task_calls' = [k \in 1..Len(paths) |-> 0]
        /\ llm_max_retries' = m

\* One pass of with_retry's loop in the task at position k: func() is
\* awaited and returns the text or fails; a failure that is retryable and
\* not the last attempt's is followed by the sleep and the next pass.
TaskProviderCall(k) ==
    LET a == task_calls[k]
        cfg == [max_retries |-> llm_max_retries]
    IN
    /\ task_pc[k] = "summarizing"
    /\ task_calls' = [task_calls EXCEPT ![k] = @ + 1]
    /\ \E outcome \in {"text", "retryable", "non_retryable"} :
          IF outcome = "text"
          THEN TaskEnds(k, success_result(file_paths[k], SummaryOf(file_paths[k])))
          ELSE IF is_last_attempt(a, cfg) \/ outcome = "non_retryable"
          THEN TaskEnds(k, processing_error_result(file_paths[k], "API error: unavailable"))
          ELSE UNCHANGED <<task_pc, task_out, completion>>
    /\ UNCHANGED <<b_pc, file_paths, batch_size, b_i, all_results, chunks, pauses,
                   max_inflight, llm_max_retries>>

\* The caller takes the list returned.
ProviderBatchComplete ==
    /\ BatchComplete
    /\ task_calls' = <<>>
    /\ llm_max_retries' = DEFAULT_MAX_RETRIES

\* The caller takes the ValueError that range raised.
BatchRaised ==
    /\ b_pc = "raised"
    /\ b_pc' = "idle"
    /\ file_paths' = <<>>
    /\ batch_size' = DEFAULT_BATCH_SIZE
    /\ task_pc' = <<>>
    /\ task_out' = <<>>
    /\ task_calls' = <<>>
    /\ llm_max_retries' = DEFAULT_MAX_RETRIES
    /\ UNCHANGED <<b_i, completion, all_results, chunks, pauses, max_inflight>>

(***************************************************************************)
(* Config, SummaryOptions and the ConfigManager.                           *)
(***************************************************************************)
\* A dict of summary options: each key present or not.
SummaryDict(d, m) == [detail_level |-> d, max_length |-> m]

\* A dict with the keys of a Config: api_key and port present or not,
\* summary_options present (a dict) or not.
ConfigDict(k, p, so) == [api_key |-> k, port |-> p, summary_options |-> so]

EmptyDict == ConfigDict(<<>>, <<>>, <<>>)

\* dict.get(key, default) on an optional value
GetOr(opt, default) == IF opt = <<>> THEN default ELSE opt[1]

\* the port test accepts 0: ge=0 in place of gt=0
port_ok_ge(p) == p >= 0 /\ p <= MAX_PORT

\* port: int = Field(default=24312, gt=0, le=65535)
port_ok(p) == p > 0 /\ p <= MAX_PORT

\* the api_key is not validated
api_key_ok_any(v) == TRUE

\* validate_api_key: a non-empty key shorter than 10 characters is rejected
api_key_ok(v) == ~(v # "" /\ Len(v) < MIN_API_KEY_LENGTH)

\* detail_level: str = Field(default="medium", regex="^(low|medium|high)$")
detail_level_ok(d) == d \in {"low", "medium", "high"}

\* max_length: int = Field(default=500, gt=0, le=2000)
max_length_ok(m) == m > 0 /\ m <= MAX_MAX_LENGTH

\* SummaryOptions(**d): <<>> when validation fails
SummaryOptions(d) ==
    LET detail == GetOr(d.detail_level, "medium")
        length == GetOr(d.max_length, DEFAULT_MAX_LENGTH)
    IN IF detail_level_ok(detail) /\ max_length_ok(length)
       THEN <<[detail_level |-> detail, max_length |-> length]>>
       ELSE <<>>

\* Config(**d): <<>> when validation fails, else <<the Config>>
Config(d) ==
    LET key == GetOr(d.api_key, "")
        port == GetOr(d.port, DEFAULT_PORT)
        so == SummaryOptions(GetOr(d.summary_options, SummaryDict(<<>>, <<>>)))
    IN IF api_key_ok(key) /\ port_ok(port) /\ so # <<>>
       THEN <<[api_key |-> key, port |-> port, summary_options |-> so[1]]>>
       ELSE <<>>

\* Config(): the defaults
DefaultConfig ==
    [api_key |-> "", port |-> DEFAULT_PORT,
     summary_options |-> [detail_level |-> "medium", max_length |-> DEFAULT_MAX_LENGTH]]

\* config.dict()
ConfigAsDict(c) ==
    ConfigDict(<<c.api_key>>, <<c.port>>,
               <<SummaryDict(<<c.summary_options.detail_level>>,
                             <<c.summary_options.max_length>>)>>)

Digits == <<"0","1","2","3","4","5","6","7","8","9">>

IsDigit(c) == \E i \in 1..10 : Digits[i] = c

DigitValue(c) == (CHOOSE i \in 1..10 : Digits[i] = c) - 1

RECURSIVE DecimalValue(_)
DecimalValue(s) ==
    IF s = <<>> THEN 0
    ELSE 10 * DecimalValue(SubSeq(s, 1, Len(s) - 1)) + DigitValue(s[Len(s)])

\* int(text): <<>> for a ValueError, else <<the integer>>
ParseInt(s) ==
    IF s # <<>> /\ \A i \in 1..Len(s) : IsDigit(s[i])
    THEN <<DecimalValue(s)>>
    ELSE IF Len(s) > 1 /\ s[1] = "-" /\ \A i \in 2..Len(s) : IsDigit(s[i])
    THEN <<0 - DecimalValue(Tail(s))>>
    ELSE <<>>

\* The values of the environment explored.
EnvApiKeys == { <<>>, <<"">>, <<"env-key-0123456789">> }
EnvPorts == { <<>>, <<<<"8","0","8","0">>>>, <<<<"a","b","c">>>> }

\* What a user may have put in config.json.
ExternalFiles ==
    { [state |-> "absent", data |-> EmptyDict],
      [state |-> "malformed", data |-> EmptyDict],
      [state |-> "json", data |-> ConfigDict(<<"0123456789">>, <<>>,
                                             <<SummaryDict(<<"low">>, <<>>)>>)],
      [state |-> "json", data |-> ConfigDict(<<"tiny">>, <<>>, <<>>)],
      [state |-> "json", data |-> ConfigDict(<<>>, <<65536>>, <<>>)],
      [state |-> "json", data |-> ConfigDict(<<>>, <<>>, <<SummaryDict(<<>>, <<2001>>)>>)] }

\* The `updates` handed to update_config.
UpdateValues ==
    { ConfigDict(k, <<>>, <<>>) : k \in {<<"">>, <<"123456789">>, <<"0123456789">>} }
    \cup { ConfigDict(<<>>, <<p>>, <<>>) : p \in {0, MAX_PORT, MAX_PORT + 1} }
    \cup { ConfigDict(<<>>, <<>>, <<so>>) :
             so \in { SummaryDict(<<"high">>, <<MAX_MAX_LENGTH>>),
                      SummaryDict(<<"verbose">>, <<DEFAULT_MAX_LENGTH>>),
                      SummaryDict(<<"low">>, <<MAX_MAX_LENGTH + 1>>),
                      SummaryDict(<<>>, <<0>>),
                      SummaryDict(<<"low">>, <<>>) } }
    \cup { EmptyDict,
           ConfigDict(<<"0123456789">>, <<MAX_PORT>>,
                      <<SummaryDict(<<"high">>, <<MAX_MAX_LENGTH>>)>>),
           ConfigDict(<<"0123456789">>, <<0>>, <<>>) }

\* _load_from_file: the dict of the file, {} when it is absent or unreadable
load_from_file(f) == IF f.state = "json" THEN f.data ELSE EmptyDict

\* os.getenv('GOOGLE_API_KEY') is truthy
env_key_truthy(e) == e # <<>> /\ e[1] # ""

\* the api_key is blanked in the file whatever the environment holds
save_to_file_blanks_key(f, config_dict, e, io) ==
    CASE io = "ok" -> [state |-> "json", data |-> [config_dict EXCEPT !.api_key = <<"">>]]
      [] io = "open_fails" -> f
      [] io = "write_fails" -> [state |-> "malformed", data |-> EmptyDict]

\* the api_key is written as it is, whatever the environment holds
save_to_file_keeps_key(f, config_dict, e, io) ==
    CASE io = "ok" -> [state |-> "json", data |-> config_dict]
      [] io = "open_fails" -> f
      [] io = "write_fails" -> [state |-> "malformed", data |-> EmptyDict]

\* _save_to_file(config_dict): the file afterwards.  `io` is what the file
\* system does: "ok"; "open_fails" (IOError at open: nothing is written);
\* "write_fails" (IOError after the file was truncated).
save_to_file(f, config_dict, e, io) ==
    LET save_dict == IF env_key_truthy(e)
                     THEN [config_dict EXCEPT !.api_key = <<"">>]
                     ELSE config_dict
    IN CASE io = "ok" -> [state |-> "json", data |-> save_dict]
         [] io = "open_fails" -> f
         [] io = "write_fails" -> [state |-> "malformed", data |-> EmptyDict]

IoOutcomes == {"ok", "open_fails", "write_fails"}

\* the file's api_key wins over the environment's
get_config_dict_file_first(f, ekey, eport) ==
    LET file_config == IF f.state = "json" THEN f.data ELSE EmptyDict
        api_key == IF file_config.api_key # <<>> THEN file_config.api_key[1]
                   ELSE IF ekey # <<>> THEN ekey[1] ELSE ""
        port == IF eport # <<>> THEN ParseInt(eport[1])
                ELSE <<GetOr(file_config.port, DEFAULT_PORT)>>
    IN IF port = <<>> THEN <<>>
       ELSE <<ConfigDict(<<api_key>>, port,
                         <<GetOr(file_config.summary_options, SummaryDict(<<>>, <<>>))>>)>>

\* The dict get_config builds from the file and the environment; <<>> when
\* int() raises ValueError.
get_config_dict(f, ekey, eport) ==
    LET file_config == load_from_file(f)
        api_key == IF env_key_truthy(ekey) THEN ekey[1] ELSE GetOr(file_config.api_key, "")
        port == IF eport # <<>> THEN ParseInt(eport[1])
                ELSE <<GetOr(file_config.port, DEFAULT_PORT)>>
    IN IF port = <<>> THEN <<>>
       ELSE <<ConfigDict(<<api_key>>, port,
                         <<GetOr(file_config.summary_options, SummaryDict(<<>>, <<>>))>>)>>

\* the updates replace the current dict instead of being merged into it
apply_updates_drops_current(current_dict, updates) == updates

\* for key, value in updates.items(): current_dict[key] = value
apply_updates(current_dict, updates) ==
    [key \in DOMAIN current_dict |->
        IF updates[key] # <<>> THEN updates[key] ELSE current_dict[key]]

\* the cache is never taken as filled: every get_config loads again
is_none_always(c) == TRUE

\* self._config is None
is_none(c) == c = <<>>

ConfigInit ==
    /\ c_updates = <<>>
    /\ c_io = "none"
    /\ c_first = <<>>
    /\ cached = <<>>
    /\ env_api_key = <<>>
    /\ env_port = <<>>
    /\ config_file = [state |-> "absent", data |-> EmptyDict]
    /\ c_op = "none"
    /\ c_raised = FALSE
    /\ c_candidate = <<>>
    /\ c_returned = <<>>

\* ConfigManager.get_config()
get_config ==
    /\ c_op' = "get_config"
    /\ IF ~is_none(cached)
       THEN /\ c_raised' = FALSE
            /\ c_candidate' = <<>>
            /\ c_returned' = cached
            /\ UNCHANGED cached
       ELSE LET d == get_config_dict(config_file, env_api_key, env_port)
                c == IF d = <<>> THEN <<>> ELSE Config(d[1])
            IN /\ c_candidate' = d
               /\ c_raised' = (c = <<>>)
               /\ cached' = (IF c = <<>> THEN cached ELSE c)
               /\ c_returned' = c
    /\ c_first' = (IF c_first = <<>> THEN c_returned' ELSE c_first)
    /\ c_updates' = <<>>
    /\ c_io' = "none"
    /\ UNCHANGED <<env_api_key, env_port, config_file>>

\* ConfigManager.update_config(updates)
update_config_call(updates) ==
       /\ c_op' = "update_config"
       /\ LET d == get_config_dict(config_file, env_api_key, env_port)
              current == IF ~is_none(cached) THEN cached
                         ELSE IF d = <<>> THEN <<>> ELSE Config(d[1])
          IN IF current = <<>>
             THEN \* get_config raised
                  /\ c_raised' = TRUE
                  /\ c_candidate' = d
                  /\ c_returned' = <<>>
                  /\ c_io' = "none"
                  /\ UNCHANGED <<cached, config_file>>
             ELSE LET current_dict == apply_updates(ConfigAsDict(current[1]), updates)
                      new == Config(current_dict)
                  IN /\ c_candidate' = <<current_dict>>
                     /\ IF new = <<>>
                        THEN /\ c_raised' = TRUE
                             /\ c_returned' = <<>>
                             /\ cached' = current
                             /\ c_io' = "none"
                             /\ UNCHANGED config_file
                        ELSE /\ c_raised' = FALSE
                             /\ c_returned' = new
                             /\ cached' = new
                             /\ \E io \in IoOutcomes :
                                   /\ c_io' = io
                                   /\ config_file' = save_to_file(config_file, current_dict,
                                                                  env_api_key, io)
       /\ c_updates' = <<updates>>
       /\ c_first' = <<>>
       /\ UNCHANGED <<env_api_key, env_port>>

\* update_config is called with one of the updates explored
update_config == \E updates \in UpdateValues : update_config_call(updates)

\* the cache is reset but config.json is left in place
reset_config_keeps_file ==
    /\ c_op' = "reset_config"
    /\ c_raised' = FALSE
    /\ c_candidate' = <<>>
    /\ c_returned' = <<>>
    /\ cached' = <<DefaultConfig>>
    /\ c_updates' = <<>>
    /\ c_io' = "none"
    /\ c_first' = <<>>
    /\ UNCHANGED <<env_api_key, env_port, config_file>>

\* ConfigManager.reset_config()
reset_config ==
    /\ c_op' = "reset_config"
    /\ c_raised' = FALSE
    /\ c_candidate' = <<>>
    /\ c_returned' = <<>>
    /\ cached' = <<DefaultConfig>>
    /\ config_file' = [state |-> "absent", data |-> EmptyDict]
    /\ c_updates' = <<>>
    /\ c_io' = "none"
    /\ c_first' = <<>>
    /\ UNCHANGED <<env_api_key, env_port>>

\* The environment of the process changes (load_dotenv, os.environ).
SetEnvironment ==
    /\ \E k \in EnvApiKeys, p \in EnvPorts :
          /\ env_api_key' = k
          /\ env_port' = p
    /\ c_op' = "none"
    /\ c_raised' = FALSE
    /\ c_candidate' = <<>>
    /\ c_returned' = <<>>
    /\ c_updates' = <<>>
    /\ c_io' = "none"
    /\ UNCHANGED <<cached, config_file, c_first>>

\* config.json is edited or removed from outside the program.
EditConfigFile ==
    /\ \E f \in ExternalFiles : config_file' = f
    /\ c_op' = "none"
    /\ c_raised' = FALSE
    /\ c_candidate' = <<>>
    /\ c_returned' = <<>>
    /\ c_updates' = <<>>
    /\ c_io' = "none"
    /\ UNCHANGED <<cached, env_api_key, env_port, c_first>>

\* A new process: a new ConfigManager with an empty cache.
NewProcess ==
    /\ cached' = <<>>
    /\ c_op' = "none"
    /\ c_raised' = FALSE
    /\ c_candidate' = <<>>
    /\ c_returned' = <<>>
    /\ c_updates' = <<>>
    /\ c_io' = "none"
    /\ c_first' = <<>>
    /\ UNCHANGED <<env_api_key, env_port, config_file>>

\* A process starts: its environment and config.json are as it finds them,
\* its ConfigManager has an empty cache.
StartProcess ==
    /\ \E k \in EnvApiKeys, p \in EnvPorts, f \in ExternalFiles \cup {config_file} :
          /\ env_api_key' = k
          /\ env_port' = p
          /\ config_file' = f
    /\ cached' = <<>>
    /\ c_op' = "none"
    /\ c_raised' = FALSE
    /\ c_candidate' = <<>>
    /\ c_returned' = <<>>
    /\ c_updates' = <<>>
    /\ c_io' = "none"
    /\ c_first' = <<>>

ConfigNext ==
    \/ get_config
    \/ update_config
    \/ reset_config
    \/ SetEnvironment
    \/ EditConfigFile
    \/ NewProcess

(***************************************************************************)
(* find_code_files: the discovery of the code files under a root.          *)
(* A path is the sequence of its names below the root, a name a tuple of   *)
(* characters.                                                             *)
(***************************************************************************)
\* The keys of EXTENSION_TO_LANGUAGE
EXTENSION_TO_LANGUAGE ==
    { <<".","p","y">>,
      <<".","j","s">>,
      <<".","t","s">>,
      <<".","j","s","x">>,
      <<".","t","s","x">>,
      <<".","j","a","v","a">>,
      <<".","c","p","p">>,
      <<".","c">>,
      <<".","g","o">>,
      <<".","r","b">>,
      <<".","p","h","p">>,
      <<".","c","s">>,
      <<".","s","w","i","f","t">>,
      <<".","r","s">>,
      <<".","k","t">>,
      <<".","s","c","a","l","a">>,
      <<".","v","u","e">>,
      <<".","h","t","m","l">>,
      <<".","c","s","s">>,
      <<".","s","c","s","s">>,
      <<".","l","e","s","s">> }

SKIP_DIRECTORIES ==
    { <<"n","o","d","e","_","m","o","d","u","l","e","s">>,
      <<"d","i","s","t">>,
      <<"b","u","i","l","d">>,
      <<".","g","i","t">>,
      <<"o","u","t">>,
      <<"c","o","v","e","r","a","g","e">>,
      <<".","n","e","x","t">>,
      <<".","n","u","x","t">>,
      <<"b","i","n">>,
      <<"o","b","j">>,
      <<"t","a","r","g","e","t">>,
      <<"v","e","n","d","o","r">>,
      <<"v","e","n","v">>,
      <<".","v","e","n","v">>,
      <<"e","n","v">>,
      <<".","e","n","v">>,
      <<"_","_","p","y","c","a","c","h","e","_","_">>,
      <<".","p","y","t","e","s","t","_","c","a","c","h","e">> }

\* An entry of the tree under the root.
File(path) == [path |-> path, kind |-> "file"]
Dir(path) == [path |-> path, kind |-> "dir"]

\* item.name
NameOf(item) == item.path[Len(item.path)]

\* The entries directory.iterdir() yields.
Children(tree, dir) ==
    { e \in tree : Len(e.path) = Len(dir) + 1 /\ SubSeq(e.path, 1, Len(dir)) = dir }

\* str(item.relative_to(root_dir))
RECURSIVE relative_path(_)
relative_path(path) ==
    IF Len(path) = 1 THEN path[1]
    ELSE relative_path(SubSeq(path, 1, Len(path) - 1)) \o <<"/">> \o path[Len(path)]

\* str.strip() of a line of .gitignore
RECURSIVE strip(_)
strip(line) ==
    IF line = <<>> THEN line
    ELSE IF line[1] = " " THEN strip(Tail(line))
    ELSE IF line[Len(line)] = " " THEN strip(SubSeq(line, 1, Len(line) - 1))
    ELSE line

\* GitignoreParser.__init__: the patterns kept from the lines of .gitignore
GitignoreParser(lines) ==
    LET stripped == [i \in 1..Len(lines) |-> strip(lines[i])]
        keep(line) == line # <<>> /\ line[1] # "#"
    IN SelectSeq(stripped, keep)

\* fnmatch.fnmatch(name, pat) on a POSIX system, for patterns made of
\* characters, * and ?
RECURSIVE fnmatch(_, _)
fnmatch(name, pat) ==
    IF pat = <<>> THEN name = <<>>
    ELSE IF pat[1] = "*"
         THEN fnmatch(name, Tail(pat)) \/ (name # <<>> /\ fnmatch(Tail(name), pat))
    ELSE IF name = <<>> THEN FALSE
    ELSE (pat[1] = "?" \/ pat[1] = name[1]) /\ fnmatch(Tail(name), Tail(pat))

\* GitignoreParser.should_ignore
should_ignore(patterns, path) ==
    \E i \in 1..Len(patterns) : fnmatch(path, patterns[i])

\* PurePath.suffix: the last dot of the name and what follows it, unless the
\* dot is the first or the last character
suffix(name) ==
    LET dots == { i \in 1..Len(name) : name[i] = "." } IN
    IF dots = {} THEN <<>>
    ELSE LET i == CHOOSE d \in dots : \A e \in dots : e <= d
         IN IF 1 < i /\ i < Len(name) THEN SubSeq(name, i, Len(name)) ELSE <<>>

\* item.suffix.lower() in EXTENSION_TO_LANGUAGE
is_code_file(item) == Lower(suffix(NameOf(item))) \in EXTENSION_TO_LANGUAGE

\* item.is_directory(): pathlib's Path has no such method (it has is_dir), so
\* the call raises AttributeError for every item
is_directory(item) == "AttributeError"

\* the directory test works and no directory is pruned
handle_item_no_pruning(patterns, item) ==
    IF item.kind = "dir" THEN "descend"
    ELSE IF should_ignore(patterns, relative_path(item.path)) THEN "ignored"
    ELSE IF is_code_file(item) THEN "append"
    ELSE "other"

\* The body of the for loop of scan_directory for one item: what it does
\* with it.
handle_item(patterns, item) ==
    IF should_ignore(patterns, relative_path(item.path)) THEN "ignored"
    ELSE LET d == is_directory(item) IN
         IF d = "AttributeError" THEN "error"
         ELSE IF d = "True"
              THEN IF NameOf(item) \in SKIP_DIRECTORIES THEN "skipped" ELSE "descend"
         ELSE IF item.kind = "file"
              THEN IF is_code_file(item) THEN "append" ELSE "other"
         ELSE "other"

\* The trees explored.
Trees ==
    { {},
      { File(<<<<"a",".","p","y">>>>),
        File(<<<<"b",".","t","x","t">>>>),
        File(<<<<"c",".","j","s">>>>),
        Dir(<<<<"n","o","d","e","_","m","o","d","u","l","e","s">>>>),
        File(<<<<"n","o","d","e","_","m","o","d","u","l","e","s">>, <<"d",".","p","y">>>>) },
      { Dir(<<<<"s","r","c">>>>),
        File(<<<<"s","r","c">>, <<"m",".","P","Y">>>>),
        File(<<<<"s","r","c">>, <<"x",".","l","o","g">>>>),
        Dir(<<<<"s","r","c">>, <<".","e","n","v">>>>),
        File(<<<<"s","r","c">>, <<".","e","n","v">>, <<"k",".","p","y">>>>),
        File(<<<<"a","p","p",".","l","o","g">>>>),
        File(<<<<"R","E","A","D","M","E">>>>) },
      { Dir(<<<<"d","o","c","s">>>>),
        File(<<<<"d","o","c","s">>, <<"g",".","g","o">>>>),
        Dir(<<<<"l","o","g","s">>>>),
        File(<<<<"l","o","g","s">>, <<"z",".","p","y">>>>),
        File(<<<<"t",".","t","s">>>>) } }

\* The contents of .gitignore explored: its lines, none when there is no file.
GitignoreFiles ==
    { <<>>,
      <<<<"#"," ","l","o","g","s">>, <<>>, <<" ","*",".","l","o","g"," ">>>>,
      <<<<"l","o","g","s">>, <<"d","o","c","s","/","*">>>>,
      <<<<"*",".","p","y">>, <<"?",".","j","s">>>>,
      <<<<"*">>>> }

\* A call of scan_directory in progress: its directory and the items its
\* for loop has still to yield.
Frame(tree, dir) == [dir |-> dir, todo |-> Children(tree, dir)]

DiscoveryInit ==
    /\ d_pc = "idle"
    /\ d_tree = {}
    /\ d_patterns = <<>>
    /\ d_stack = <<>>
    /\ code_files = <<>>
    /\ d_errors = {}
    /\ d_denied = {}
    /\ d_ignored = {}
    /\ d_visited = {}

\* find_code_files(root_dir): .gitignore is parsed and scan_directory(root_dir) called
find_code_files ==
    /\ d_pc \in {"idle", "returned"}
    /\ \E tree \in Trees, lines \in GitignoreFiles :
          /\ d_tree' = tree
          /\ d_patterns' = GitignoreParser(lines)
          /\ d_stack' = <<Frame(tree, <<>>)>>
    /\ d_pc' = "scanning"
    /\ code_files' = <<>>
    /\ d_errors' = {}
    /\ d_denied' = {}
    /\ d_ignored' = {}
    /\ d_visited' = {<<>>}

\* One iteration of the for loop of the innermost scan_directory, on any of
\* the items iterdir() has still to yield (its order is not specified).
ScanItem ==
    /\ d_pc = "scanning"
    /\ d_stack # <<>>
    /\ LET n == Len(d_stack)
           top == d_stack[n]
       IN \E item \in top.todo :
            LET rest == [d_stack EXCEPT ![n].todo = top.todo \ {item}]
                h == handle_item(d_patterns, item)
            IN CASE h = "ignored" ->
                      /\ d_stack' = rest
                      /\ d_ignored' = d_ignored \cup {item.path}
                      /\ UNCHANGED <<code_files, d_errors, d_visited>>
                 [] h \in {"skipped", "other"} ->
                      /\ d_stack' = rest
                      /\ UNCHANGED <<code_files, d_errors, d_ignored, d_visited>>
                 [] h = "append" ->
                      /\ d_stack' = rest
                      /\ code_files' = Append(code_files, item.path)
                      /\ UNCHANGED <<d_errors, d_ignored, d_visited>>
                 [] h = "descend" ->
                      /\ d_stack' = Append(rest, Frame(d_tree, item.path))
                      /\ d_visited' = d_visited \cup {item.path}
                      /\ UNCHANGED <<code_files, d_errors, d_ignored>>
                 [] h = "error" ->
                      \* except Exception: the loop is left, scan_directory returns
                      /\ d_stack' = SubSeq(d_stack, 1, n - 1)
                      /\ d_errors' = d_errors \cup {[dir |-> top.dir, item |-> item.path]}
                      /\ UNCHANGED <<code_files, d_ignored, d_visited>>
    /\ UNCHANGED <<d_pc, d_tree, d_patterns, d_denied>>

\* directory.iterdir() raises PermissionError: except PermissionError
PermissionDenied ==
    /\ d_pc = "scanning"
    /\ d_stack # <<>>
    /\ LET n == Len(d_stack)
           top == d_stack[n]
       IN /\ top.todo = Children(d_tree, top.dir)
          /\ d_stack' = SubSeq(d_stack, 1, n - 1)
          /\ d_denied' = d_denied \cup {top.dir}
    /\ UNCHANGED <<d_pc, d_tree, d_patterns, code_files, d_errors, d_ignored, d_visited>>

\* The for loop of the innermost scan_directory is exhausted: it returns.
EndOfDirectory ==
    /\ d_pc = "scanning"
    /\ d_stack # <<>>
    /\ d_stack[Len(d_stack)].todo = {}
    /\ d_stack' = SubSeq(d_stack, 1, Len(d_stack) - 1)
    /\ UNCHANGED <<d_pc, d_tree, d_patterns, code_files, d_errors, d_denied, d_ignored, d_visited>>

\* scan_directory(root_dir) has returned: return code_files
ReturnCodeFiles ==
    /\ d_pc = "scanning"
    /\ d_stack = <<>>
    /\ d_pc' = "returned"
    /\ UNCHANGED <<d_tree, d_patterns, d_stack, code_files, d_errors, d_denied, d_ignored, d_visited>>

DiscoveryNext ==
    \/ find_code_files
    \/ ScanItem
    \/ PermissionDenied
    \/ EndOfDirectory
    \/ ReturnCodeFiles

(***************************************************************************)
(* summarize_file: one call, with the file's size, content and access.     *)
(***************************************************************************)
\* the size test rejects a file of exactly MAX_FILE_SIZE_BYTES
too_large_inclusive(size) == size >= MAX_FILE_SIZE_BYTES

\* file_size > MAX_FILE_SIZE_BYTES
too_large(size) == size > MAX_FILE_SIZE_BYTES

\* The files explored: the size stat reports, whether the bytes decode as
\* UTF-8, and whether the file can be stat'ed and opened.
FileSizes == {0, 1, 1024, MAX_FILE_SIZE_BYTES - 1, MAX_FILE_SIZE_BYTES,
              MAX_FILE_SIZE_BYTES + 1, 2 * MAX_FILE_SIZE_BYTES}

Files ==
    [size : FileSizes, content : {"utf8", "invalid"},
     access : {"ok", "missing", "unreadable"}]

\* What llm.summarize does when it is awaited: it returns the summary, or
\* raises an LLMError with one of these messages.
LlmFailures == {"API error: unavailable", "Content too large: token limit"}

LlmOutcomes == {"summary"} \cup LlmFailures

FileInit ==
    /\ f_pc = "idle"
    /\ f_file = [size |-> 0, content |-> "utf8", access |-> "ok"]
    /\ f_read = FALSE
    /\ f_llm_calls = 0
    /\ f_result = Pending

\* summarize_file(file_path, llm, options) is called
summarize_file ==
    /\ f_pc \in {"idle", "returned"}
    /\ \E file \in Files : f_file' = file
    /\ f_pc' = "stat"
    /\ f_read' = FALSE
    /\ f_llm_calls' = 0
    /\ f_result' = Pending

\* file_path.stat().st_size and the size test
StatFile ==
    /\ f_pc = "stat"
    /\ IF f_file.access = "missing"
       THEN \* stat raises FileNotFoundError: except Exception
            /\ f_result' = processing_error_result(PathOf(1), "No such file or directory")
            /\ f_pc' = "returned"
       ELSE IF too_large(f_file.size)
       THEN /\ f_result' = too_large_result(PathOf(1))
            /\ f_pc' = "returned"
       ELSE /\ f_pc' = "reading"
            /\ UNCHANGED f_result
    /\ UNCHANGED <<f_file, f_read, f_llm_calls>>

\* aiofiles.open(file_path, 'r', encoding='utf-8') and f.read()
ReadFile ==
    /\ f_pc = "reading"
    /\ IF f_file.access = "unreadable"
       THEN \* open raises PermissionError: except Exception
            /\ f_result' = processing_error_result(PathOf(1), "Permission denied")
            /\ f_pc' = "returned"
            /\ UNCHANGED f_read
       ELSE IF f_file.content = "invalid"
       THEN \* read raises UnicodeDecodeError
            /\ f_result' = decode_error_result(PathOf(1))
            /\ f_pc' = "returned"
            /\ f_read' = TRUE
       ELSE /\ f_pc' = "summarizing"
            /\ f_read' = TRUE
            /\ UNCHANGED f_result
    /\ UNCHANGED <<f_file, f_llm_calls>>

\* summary = await llm.summarize(content, language, options)
CallLLM ==
    /\ f_pc = "summarizing"
    /\ f_llm_calls' = f_llm_calls + 1
    /\ \E out \in LlmOutcomes :
          f_result' = IF out = "summary"
                      THEN success_result(PathOf(1), SummaryOf(PathOf(1)))
                      ELSE processing_error_result(PathOf(1), out)
    /\ f_pc' = "returned"
    /\ UNCHANGED <<f_file, f_read>>

\* The dict summarize_file returns when llm.summarize raised e:
\* f'Error processing file: {str(e)}'
llm_error_result(path, e) ==
    FileResult(path, <<"Error processing file: ", e.msg>>, "processing_error")

\* summarize_file is called on a client that is idle: the call before, if
\* any, is over.
FileWithClient ==
    /\ summarize_file
    /\ IF r_pc = "idle" THEN UNCHANGED retryVars ELSE Complete

\* summary = await llm.summarize(content, language, options), llm a GeminiLLM
AwaitSummarize ==
    /\ f_pc = "summarizing"
    /\ summarize
    /\ f_pc' = "awaiting"
    /\ f_llm_calls' = f_llm_calls + 1
    /\ UNCHANGED <<f_file, f_read, f_result>>

\* llm.summarize returned or raised: the return of the try block, or the
\* except Exception clause
SummarizeEnds ==
    /\ f_pc = "awaiting"
    /\ r_pc \in {"returned", "raised"}
    /\ f_result' = IF r_pc = "returned"
                   THEN success_result(PathOf(1), r_result)
                   ELSE llm_error_result(PathOf(1), r_error)
    /\ f_pc' = "returned"
    /\ UNCHANGED <<f_file, f_read, f_llm_calls, retryVars>>

FileNext ==
    \/ summarize_file
    \/ StatFile
    \/ ReadFile
    \/ CallLLM

(***************************************************************************)
(* write_summaries_to_file and summarize_directory.                        *)
(* A file is [exists, chunks]: the texts written to it, in order.          *)
(***************************************************************************)
\* str(path)
path_str(path) == IF path = <<>> THEN <<".">> ELSE relative_path(path)

\* file_path.relative_to(root_dir): <<>> for a ValueError, else <<the path>>
relative_to(path, root) ==
    IF Len(root) <= Len(path) /\ SubSeq(path, 1, Len(root)) = root
    THEN <<SubSeq(path, Len(root) + 1, Len(path))>>
    ELSE <<>>

\* the output is opened for appending: what it holds is kept
open_a(target) == [exists |-> TRUE, chunks |-> target.chunks]

\* aiofiles.open(output_path, 'w'): the file is created or truncated
open_w(target) == [exists |-> TRUE, chunks |-> <<>>]

\* The two f.write calls of one iteration of the loop.
write_result(target, result, root) ==
    LET rel == relative_to(result.file_path, root)
        shown == IF rel = <<>> THEN result.file_path ELSE rel[1]
    IN [target EXCEPT !.chunks = @ \o << path_str(shown) \o <<"\n">>,
                                        result.summary \o <<"\n", "\n">> >>]

\* The root scanned and the results explored.
RootDir == <<<<"p","r","o","j">>>>

ResultPaths == { <<<<"p","r","o","j">>, <<"a",".","p","y">>>>, <<<<"p","r","o","j">>, <<"s","r","c">>, <<"b",".","j","s">>>>, <<<<"o","t","h","e","r">>, <<"c",".","p","y">>>> }

ResultSummaries == { <<"S","1">>, <<"E","r","r","o","r">> }

ResultValues == [file_path : ResultPaths, summary : ResultSummaries]

ResultLists == UNION { [1..n -> ResultValues] : n \in 0..MaxResults }

\* What the output path may hold before a call.
Targets == { [exists |-> FALSE, chunks |-> <<>>],
             [exists |-> TRUE, chunks |-> <<<<"o","l","d","\n">>>>] }

OutputPaths == { <<>>, <<<<<<"s","u","m","m","a","r","i","e","s",".","t","x","t">>>>>> }

WriteInit ==
    /\ w_pc = "idle"
    /\ w_caller = "direct"
    /\ w_results = <<>>
    /\ w_root = RootDir
    /\ w_index = 0
    /\ w_target = [exists |-> FALSE, chunks |-> <<>>]
    /\ w_before = [exists |-> FALSE, chunks |-> <<>>]

DirectoryInit ==
    /\ o_pc = "idle"
    /\ o_output_path = <<>>
    /\ o_results = <<>>
    /\ o_llm_calls = 0

\* write_summaries_to_file(results, output_path, root_dir) is called
write_summaries_to_file ==
    /\ o_pc = "idle"
    /\ w_pc \in {"idle", "closed", "raised"}
    /\ \E results \in ResultLists, before \in Targets :
          /\ w_results' = results
          /\ w_target' = before
          /\ w_before' = before
    /\ w_pc' = "open"
    /\ w_caller' = "direct"
    /\ w_root' = RootDir
    /\ w_index' = 0
    /\ UNCHANGED <<o_pc, o_output_path, o_results, o_llm_calls>>

\* async with aiofiles.open(output_path, 'w', encoding='utf-8') as f
WriteOpen ==
    /\ w_pc = "open"
    /\ \/ /\ w_target' = open_w(w_target)
          /\ w_pc' = "writing"
          /\ UNCHANGED o_pc
       \/ \* open raises OSError: it leaves write_summaries_to_file and its caller
          /\ w_pc' = "raised"
          /\ o_pc' = (IF w_caller = "summarize_directory" THEN "raised" ELSE o_pc)
          /\ UNCHANGED w_target
    /\ UNCHANGED <<w_caller, w_results, w_root, w_index, w_before,
                   o_output_path, o_results, o_llm_calls>>

\* One iteration of `for result in results`
WriteResult ==
    /\ w_pc = "writing"
    /\ w_index < Len(w_results)
    /\ w_index' = w_index + 1
    /\ w_target' = write_result(w_target, w_results[w_index + 1], w_root)
    /\ UNCHANGED <<w_pc, w_caller, w_results, w_root, w_before,
                   o_pc, o_output_path, o_results, o_llm_calls>>

\* The loop is exhausted: the file is closed and write_summaries_to_file
\* returns; summarize_directory, when it is the caller, returns results.
WriteClose ==
    /\ w_pc = "writing"
    /\ w_index = Len(w_results)
    /\ w_pc' = "closed"
    /\ o_pc' = (IF w_caller = "summarize_directory" THEN "returned" ELSE o_pc)
    /\ UNCHANGED <<w_caller, w_results, w_root, w_index, w_target, w_before,
                   o_output_path, o_results, o_llm_calls>>

\* the test never finds the list empty
no_code_files_never(files) == FALSE

\* not code_files
no_code_files(files) == files = <<>>

\* summarize_directory(root_dir, output_path, llm, options) is called:
\* code_files = await find_code_files(root_dir)
summarize_directory ==
    /\ o_pc \in {"idle", "returned", "raised"}
    /\ w_pc = "idle" \/ (w_caller = "summarize_directory" /\ w_pc \in {"closed", "raised"})
    /\ find_code_files
    /\ \E out \in OutputPaths, before \in Targets :
          /\ o_output_path' = out
          /\ w_target' = before
          /\ w_before' = before
    /\ o_pc' = "discovering"
    /\ o_results' = <<>>
    /\ o_llm_calls' = 0
    /\ w_pc' = "idle"
    /\ w_caller' = "summarize_directory"
    /\ w_results' = <<>>
    /\ w_index' = 0
    /\ UNCHANGED w_root

\* find_code_files has returned: the empty list is returned at once; else
\* summarize_files_batch gives one result per file, in order, each file's
\* task calling the LLM client or failing before, and the results are
\* written when output_path is given.
DirectoryProceed ==
    /\ o_pc = "discovering"
    /\ d_pc = "returned"
    /\ IF no_code_files(code_files)
       THEN /\ o_pc' = "returned"
            /\ o_results' = <<>>
            /\ UNCHANGED <<o_llm_calls, w_pc, w_results>>
       ELSE \E reached \in SUBSET (1..Len(code_files)) :
            \E ok \in SUBSET reached :
               LET results == [k \in 1..Len(code_files) |->
                                 [file_path |-> RootDir \o code_files[k],
                                  summary |-> IF k \in ok THEN <<"S","1">>
                                              ELSE <<"E","r","r","o","r">>]]
               IN /\ o_results' = results
                  /\ o_llm_calls' = Cardinality(reached)
                  /\ w_results' = results
                  /\ IF o_output_path # <<>>
                     THEN /\ w_pc' = "open"
                          /\ o_pc' = "writing"
                     ELSE /\ o_pc' = "returned"
                          /\ UNCHANGED w_pc
    /\ UNCHANGED <<o_output_path, w_caller, w_root, w_index, w_target, w_before>>

WriteNext ==
    \/ write_summaries_to_file
    \/ WriteOpen
    \/ WriteResult
    \/ WriteClose

DirectoryNext ==
    \/ summarize_directory
    \/ DirectoryProceed

(***************************************************************************)
(* The protocol server: call_tool and its three handlers.  A response is   *)
(* the sequence of the texts it is made of.                                 *)
(***************************************************************************)
\* An argument of a tool call: not in the dict, None, or a value.
Absent == <<>>

Null == << <<>> >>

Val(v) == << <<v>> >>

\* key in arguments
is_given(a) == a # Absent

\* the argument is in the dict and is not None
not_none(a) == a # Absent /\ a # Null

value_of(a) == a[1][1]

\* str(value) of an argument that is in the dict
value_text(a) == IF a = Null THEN "None" ELSE ToString(value_of(a))

\* The file system the server sees: what each path names.
path_kind(path) ==
    CASE path = "a.py" -> "file"
      [] path \in {"src", "."} -> "dir"
      [] OTHER -> "missing"

\* the test finds every path
path_exists_always(path) == TRUE

\* Path.exists()
path_exists(path) == path_kind(path) # "missing"

\* directory.is_directory(): pathlib has no such method (it is is_dir), so
\* the call raises AttributeError whatever the path names
path_is_directory(path) == "AttributeError"

\* The config get_config() returns in the current state: <<>> when it raises.
get_config_value ==
    LET d == get_config_dict(config_file, env_api_key, env_port)
    IN IF ~is_none(cached) THEN cached
       ELSE IF d = <<>> THEN <<>> ELSE Config(d[1])

\* str(e) of what get_config raises
get_config_error ==
    IF get_config_dict(config_file, env_api_key, env_port) = <<>>
    THEN <<"invalid literal for int() with base 10">>
    ELSE <<"validation error for Config">>

Raised(message) == [exception |-> <<message>>, text |-> <<>>]

Returned(text) == [exception |-> <<>>, text |-> text]

\* the client is built whatever the api_key is
ensure_llm_no_key_check(client) ==
    LET current == get_config_value
    IN IF client # <<>> THEN [exception |-> <<>>, llm |-> client]
       ELSE IF current = <<>> THEN [exception |-> <<get_config_error>>, llm |-> <<>>]
       ELSE [exception |-> <<>>, llm |-> <<current[1].api_key>>]

\* _ensure_llm: the client held afterwards and what was raised
ensure_llm(client) ==
    LET current == get_config_value
    IN IF client # <<>> THEN [exception |-> <<>>, llm |-> client]
       ELSE IF current = <<>> THEN [exception |-> <<get_config_error>>, llm |-> <<>>]
       ELSE IF current[1].api_key = ""
       THEN [exception |-> <<<<"API key not configured. Use the configure tool to set it.">>>>,
             llm |-> <<>>]
       ELSE [exception |-> <<>>, llm |-> <<current[1].api_key>>]

\* the exception leaves the dispatcher
call_tool_reraises(out) ==
    IF out.exception # <<>>
    THEN [propagated |-> TRUE, response |-> <<>>]
    ELSE [propagated |-> FALSE, response |-> out.text]

\* call_tool's try/except around the handlers
call_tool_result(out) ==
    IF out.exception # <<>>
    THEN [propagated |-> FALSE, response |-> <<"Error: ">> \o out.exception[1]]
    ELSE [propagated |-> FALSE, response |-> out.text]

\* The arguments of summarize_file calls explored.
FileArguments ==
    { [file_path |-> a] : a \in {Absent, Val("a.py"), Val("gone.py")} }

\* What summarize_file returns for a file that exists.
FileOutcomes ==
    { [error |-> FALSE, llm |-> TRUE, summary |-> "S1"],
      [error |-> TRUE, llm |-> TRUE, summary |-> "Error processing file: API error"],
      [error |-> TRUE, llm |-> FALSE, summary |-> "File too large to process (>200KB)"] }

\* The text _handle_summarize_file makes of a result
file_response(path, result) ==
    IF result.error
    THEN <<"Error: ", result.summary>>
    ELSE <<"File: ", path, "\n", "Language: ", "Python", "\n",
           "Summary: ", result.summary, "\n">>

\* The arguments of summarize_directory calls explored.
DirectoryArguments ==
    { [directory |-> a, output_file |-> Absent] :
         a \in {Absent, Val("src"), Val("a.py"), Val("gone")} }
    \cup { [directory |-> Val("src"), output_file |-> Val("out.txt")] }

\* What summarize_directory returns: results with the path shown for each.
DirectoryOutcomes ==
    { <<>>,
      <<[shown |-> "a.py", summary |-> "S1"]>>,
      <<[shown |-> "a.py", summary |-> "S1"],
        [shown |-> "lib/b.js", summary |-> "Error processing file: API error"]>> }

RECURSIVE result_lines(_)
result_lines(results) ==
    IF results = <<>> THEN <<>>
    ELSE <<"**", Head(results).shown, "**\n", Head(results).summary, "\n\n">>
         \o result_lines(Tail(results))

\* The text _handle_summarize_directory makes of the results
directory_response(directory, output_file, results) ==
    IF results = <<>>
    THEN <<"No code files found to summarize.">>
    ELSE <<"Summarized ", ToString(Len(results)), " files from ", directory, ":\n\n">>
         \o result_lines(results)
         \o (IF not_none(output_file)
             THEN <<"\nSummaries also saved to: ", value_of(output_file)>> ELSE <<>>)

\* The arguments of configure calls explored.
ConfigureArgs(k, p, d, m) == [api_key |-> k, port |-> p, detail_level |-> d, max_length |-> m]

ConfigureArguments ==
    { ConfigureArgs(k, Absent, Absent, Absent) :
         k \in {Absent, Null, Val(""), Val("0123456789"), Val("abcdefghij-2"), Val("tiny")} }
    \cup { ConfigureArgs(Absent, Val(0), Absent, Absent),
           ConfigureArgs(Absent, Val(MAX_PORT + 1), Absent, Absent),
           ConfigureArgs(Absent, Absent, Absent, Val(MAX_MAX_LENGTH + 1)),
           ConfigureArgs(Absent, Absent, Val("high"), Absent),
           ConfigureArgs(Absent, Absent, Val("verbose"), Absent),
           ConfigureArgs(Val("abcdefghij-2"), Null, Absent, Val(100)),
           ConfigureArgs(Null, Absent, Val("high"), Absent) }

\* updates = {k: v for k, v in arguments.items() if v is not None} is empty
no_updates(arguments) ==
    /\ ~not_none(arguments.api_key)
    /\ ~not_none(arguments.port)
    /\ ~not_none(arguments.detail_level)
    /\ ~not_none(arguments.max_length)

\* The dict handed to update_config: detail_level and max_length are merged
\* into the dict of the current summary options.
configure_updates(arguments, config) ==
    ConfigDict(IF not_none(arguments.api_key) THEN <<value_of(arguments.api_key)>> ELSE <<>>,
               IF not_none(arguments.port) THEN <<value_of(arguments.port)>> ELSE <<>>,
               IF not_none(arguments.detail_level) \/ not_none(arguments.max_length)
               THEN <<SummaryDict(
                        <<IF not_none(arguments.detail_level)
                          THEN value_of(arguments.detail_level)
                          ELSE config.summary_options.detail_level>>,
                        <<IF not_none(arguments.max_length)
                          THEN value_of(arguments.max_length)
                          ELSE config.summary_options.max_length>>)>>
               ELSE <<>>)

\* the key is printed as it is
show_api_key_plain(key) == key

\* api_key is shown as ***
show_api_key(key) == "***"

\* "Current configuration: ..."
report_current(config) ==
    <<"Current configuration:\n",
      "- API Key: ", IF config.api_key # "" THEN show_api_key(config.api_key) ELSE "Not set", "\n",
      "- Port: ", ToString(config.port), "\n",
      "- Detail Level: ", config.summary_options.detail_level, "\n",
      "- Max Length: ", ToString(config.summary_options.max_length)>>

argument_line(key, a) ==
    IF is_given(a) THEN <<"- " \o key \o ": ", value_text(a), "\n">> ELSE <<>>

\* "Configuration updated: ..." with one line per key of the arguments
report_updated(arguments) ==
    <<"Configuration updated:\n">>
    \o (IF is_given(arguments.api_key)
        THEN <<"- api_key: ", show_api_key(value_text(arguments.api_key)), "\n">> ELSE <<>>)
    \o argument_line("port", arguments.port)
    \o argument_line("detail_level", arguments.detail_level)
    \o argument_line("max_length", arguments.max_length)

\* _handle_configure(arguments): what it raises or returns in the current state
handle_configure(arguments) ==
    LET current == get_config_value
    IN IF current = <<>> THEN Raised(get_config_error)
       ELSE IF no_updates(arguments) THEN Returned(report_current(current[1]))
       ELSE IF Config(apply_updates(ConfigAsDict(current[1]),
                                    configure_updates(arguments, current[1]))) = <<>>
       THEN Raised(<<"validation error for Config">>)
       ELSE Returned(report_updated(arguments))

\* the cached client is kept
llm_after_configure_kept(client, arguments) == client

\* if 'api_key' in arguments: self.llm = None
llm_after_configure(client, arguments) ==
    IF is_given(arguments.api_key) THEN <<>> ELSE client

\* The same call with another valid api_key.
OtherKey(key) == IF key = "0123456789" THEN "abcdefghij-2" ELSE "0123456789"

ServerInit ==
    /\ llm = <<>>
    /\ s_tool = "none"
    /\ s_args = <<>>
    /\ s_response = <<>>
    /\ s_exception = <<>>
    /\ s_propagated = FALSE
    /\ s_client = <<>>
    /\ s_summarized = FALSE
    /\ s_llm_invoked = FALSE
    /\ s_twin = <<>>
    /\ s_key = <<>>

\* The environment and config.json a server process may start with.
ServerEnvironments ==
    { [key |-> <<>>, port |-> <<>>, file |-> [state |-> "absent", data |-> EmptyDict]],
      [key |-> <<"env-key-0123456789">>, port |-> <<>>,
       file |-> [state |-> "absent", data |-> EmptyDict]],
      [key |-> <<>>, port |-> <<>>,
       file |-> [state |-> "json",
                 data |-> ConfigDict(<<"0123456789">>, <<>>, <<SummaryDict(<<"low">>, <<>>)>>)]],
      [key |-> <<>>, port |-> <<<<"a","b","c">>>>,
       file |-> [state |-> "absent", data |-> EmptyDict]],
      [key |-> <<>>, port |-> <<>>,
       file |-> [state |-> "json", data |-> ConfigDict(<<"tiny">>, <<>>, <<>>)]] }

\* The server process starts: CodeSummarizerMCPServer() with self.llm = None
StartServer ==
    /\ \E e \in ServerEnvironments :
          /\ env_api_key' = e.key
          /\ env_port' = e.port
          /\ config_file' = e.file
    /\ cached' = <<>>
    /\ c_op' = "none"
    /\ c_raised' = FALSE
    /\ c_candidate' = <<>>
    /\ c_returned' = <<>>
    /\ c_updates' = <<>>
    /\ c_io' = "none"
    /\ c_first' = <<>>
    /\ llm' = <<>>
    /\ s_tool' = "none"
    /\ s_args' = <<>>
    /\ s_response' = <<>>
    /\ s_exception' = <<>>
    /\ s_propagated' = FALSE
    /\ s_client' = <<>>
    /\ s_summarized' = FALSE
    /\ s_llm_invoked' = FALSE
    /\ s_twin' = <<>>
    /\ s_key' = <<>>

\* What every call leaves of the dispatcher's outcome.
Respond(out) ==
    /\ s_exception' = out.exception
    /\ s_response' = call_tool_result(out).response
    /\ s_propagated' = call_tool_result(out).propagated

\* _ensure_llm's effect on the configuration: get_config when no client is held
EnsureConfig ==
    IF llm = <<>> THEN get_config ELSE UNCHANGED configVars

\* call_tool("summarize_file", arguments)
call_summarize_file ==
    \E arguments \in FileArguments, result \in FileOutcomes :
       LET ensured == ensure_llm(llm)
       IN /\ s_tool' = "summarize_file"
          /\ s_args' = arguments
          /\ EnsureConfig
          /\ llm' = ensured.llm
          /\ s_client' = ensured.llm
          /\ IF ensured.exception # <<>>
             THEN /\ Respond(Raised(ensured.exception[1]))
                  /\ s_summarized' = FALSE
                  /\ s_llm_invoked' = FALSE
             ELSE IF ~is_given(arguments.file_path)
             THEN /\ Respond(Raised(<<"'file_path'">>))
                  /\ s_summarized' = FALSE
                  /\ s_llm_invoked' = FALSE
             ELSE IF ~path_exists(value_of(arguments.file_path))
             THEN /\ Respond(Raised(<<"File not found: ", value_of(arguments.file_path)>>))
                  /\ s_summarized' = FALSE
                  /\ s_llm_invoked' = FALSE
             ELSE /\ Respond(Returned(file_response(value_of(arguments.file_path), result)))
                  /\ s_summarized' = TRUE
                  /\ s_llm_invoked' = result.llm
          /\ UNCHANGED <<s_twin, s_key>>

\* call_tool("summarize_directory", arguments)
call_summarize_directory ==
    \E arguments \in DirectoryArguments, results \in DirectoryOutcomes :
       LET ensured == ensure_llm(llm)
           directory == IF is_given(arguments.directory)
                        THEN value_of(arguments.directory) ELSE "."
       IN /\ s_tool' = "summarize_directory"
          /\ s_args' = arguments
          /\ EnsureConfig
          /\ llm' = ensured.llm
          /\ s_client' = ensured.llm
          /\ IF ensured.exception # <<>>
             THEN /\ Respond(Raised(ensured.exception[1]))
                  /\ s_summarized' = FALSE
                  /\ s_llm_invoked' = FALSE
             ELSE IF ~path_exists(directory)
             THEN /\ Respond(Raised(<<"Directory not found: ", directory>>))
                  /\ s_summarized' = FALSE
                  /\ s_llm_invoked' = FALSE
             ELSE IF path_is_directory(directory) = "AttributeError"
             THEN /\ Respond(Raised(<<"'PosixPath' object has no attribute 'is_directory'">>))
                  /\ s_summarized' = FALSE
                  /\ s_llm_invoked' = FALSE
             ELSE IF path_is_directory(directory) = "False"
             THEN /\ Respond(Raised(<<"Directory not found: ", directory>>))
                  /\ s_summarized' = FALSE
                  /\ s_llm_invoked' = FALSE
             ELSE /\ Respond(Returned(directory_response(directory, arguments.output_file,
                                                         results)))
                  /\ s_summarized' = TRUE
                  /\ s_llm_invoked' = (results # <<>>)
          /\ UNCHANGED <<s_twin, s_key>>

\* call_tool("configure", arguments)
call_configure ==
    \E arguments \in ConfigureArguments :
       LET out == handle_configure(arguments)
           current == get_config_value
           updated == out.exception = <<>> /\ ~no_updates(arguments)
       IN /\ s_tool' = "configure"
          /\ s_args' = arguments
          /\ IF no_updates(arguments) THEN get_config
             ELSE IF current = <<>> THEN update_config_call(EmptyDict)
             ELSE update_config_call(configure_updates(arguments, current[1]))
          /\ llm' = (IF updated THEN llm_after_configure(llm, arguments) ELSE llm)
          /\ Respond(out)
          /\ s_twin' = (IF not_none(arguments.api_key)
                        THEN call_tool_result(handle_configure(
                                [arguments EXCEPT !.api_key =
                                    Val(OtherKey(value_of(arguments.api_key)))])).response
                        ELSE <<>>)
          /\ s_key' = (IF updated /\ not_none(arguments.api_key)
                       THEN <<value_of(arguments.api_key)>> ELSE s_key)
          /\ s_client' = <<>>
          /\ s_summarized' = FALSE
          /\ s_llm_invoked' = FALSE

\* call_tool(name, arguments) with a name that is none of the three tools
call_unknown_tool ==
    \E name \in {"summarise_file", ""} :
       /\ s_tool' = name
       /\ s_args' = <<>>
       /\ Respond(Raised(<<"Unknown tool: ", name>>))
       /\ s_client' = <<>>
       /\ s_summarized' = FALSE
       /\ s_llm_invoked' = FALSE
       /\ UNCHANGED <<llm, s_twin, s_key, configVars>>

ServerNext ==
    \/ StartServer
    \/ call_summarize_file
    \/ call_summarize_directory
    \/ call_configure
    \/ call_unknown_tool

(***************************************************************************)
(* The command line: `config set`.  Every command is a process of its own. *)
(***************************************************************************)
\* The flags of a `config set` command: each given or not.
CliFlags(k, p, d, m) == [api_key |-> k, port |-> p, detail_level |-> d, max_length |-> m]

CliFlagValues ==
    { CliFlags(<<>>, <<>>, <<>>, <<>>),
      CliFlags(<<"">>, <<>>, <<>>, <<>>),
      CliFlags(<<>>, <<0>>, <<>>, <<>>),
      CliFlags(<<>>, <<>>, <<>>, <<0>>),
      CliFlags(<<"0123456789">>, <<>>, <<>>, <<>>),
      CliFlags(<<"tiny">>, <<>>, <<>>, <<>>),
      CliFlags(<<>>, <<8080>>, <<>>, <<>>),
      CliFlags(<<>>, <<>>, <<"high">>, <<>>),
      CliFlags(<<>>, <<>>, <<>>, <<100>>),
      CliFlags(<<>>, <<>>, <<"low">>, <<MAX_MAX_LENGTH>>),
      CliFlags(<<"0123456789">>, <<8080>>, <<"high">>, <<>>) }

\* `if api_key:`, `if detail_level`: the flag was given and is not ""
truthy_text(flag) == flag # <<>> /\ flag[1] # ""

\* `if port:`, `if max_length`: the flag was given and is not 0
truthy_int(flag) == flag # <<>> /\ flag[1] # 0

\* summary_options[key] = value on the copy of the SummaryOptions model: a
\* pydantic model has no item assignment, so this raises TypeError (<<>>)
set_item(options, key, value) == <<>>

CliInit ==
    /\ cli_pc = "none"
    /\ cli_flags = CliFlags(<<>>, <<>>, <<>>, <<>>)
    /\ cli_output = ""
    /\ cli_raised = ""
    /\ cli_before = <<>>
    /\ cli_file_before = [state |-> "absent", data |-> EmptyDict]

\* A command line process starts: nothing is cached yet.
StartCli ==
    /\ StartProcess
    /\ cli_pc' = "started"
    /\ cli_flags' = CliFlags(<<>>, <<>>, <<>>, <<>>)
    /\ cli_output' = ""
    /\ cli_raised' = ""
    /\ cli_before' = <<>>
    /\ cli_file_before' = config_file'

\* config_set(api_key, port, detail_level, max_length), to the end of the
\* process
config_set ==
    /\ cli_pc = "started"
    /\ cli_pc' = "exited"
    /\ cli_before' = get_config_value
    /\ cli_file_before' = config_file
    /\ \E flags \in CliFlagValues :
          LET current == get_config_value
              key == IF truthy_text(flags.api_key) THEN flags.api_key ELSE <<>>
              port == IF truthy_int(flags.port) THEN flags.port ELSE <<>>
              with_detail ==
                 IF current = <<>> \/ ~truthy_text(flags.detail_level)
                 THEN current
                 ELSE set_item(current[1].summary_options, "detail_level",
                               flags.detail_level[1])
              with_length ==
                 IF with_detail = <<>> \/ ~truthy_int(flags.max_length)
                 THEN with_detail
                 ELSE set_item(with_detail[1], "max_length", flags.max_length[1])
          IN /\ cli_flags' = flags
             /\ IF truthy_text(flags.detail_level) \/ truthy_int(flags.max_length)
                THEN IF current = <<>>
                     THEN \* get_config raises
                          /\ get_config
                          /\ cli_raised' = "ConfigError"
                          /\ cli_output' = ""
                     ELSE IF with_length = <<>>
                     THEN \* the item assignment raises
                          /\ get_config
                          /\ cli_raised' = "TypeError"
                          /\ cli_output' = ""
                     ELSE /\ update_config_call(
                                ConfigDict(key, port,
                                   <<SummaryDict(<<with_length[1].detail_level>>,
                                                 <<with_length[1].max_length>>)>>))
                          /\ cli_raised' = (IF c_raised' THEN "ConfigError" ELSE "")
                          /\ cli_output' = (IF c_raised' THEN ""
                                            ELSE "Configuration updated!")
                ELSE IF key # <<>> \/ port # <<>>
                THEN /\ update_config_call(ConfigDict(key, port, <<>>))
                     /\ cli_raised' = (IF c_raised' THEN "ConfigError" ELSE "")
                     /\ cli_output' = (IF c_raised' THEN "" ELSE "Configuration updated!")
                ELSE /\ cli_raised' = ""
                     /\ cli_output' = "No changes specified."
                     /\ UNCHANGED configVars

CliNext ==
    \/ StartCli
    \/ config_set

Init ==
    /\ RetryInit /\ BatchInit /\ ConfigInit /\ DiscoveryInit /\ FileInit
    /\ WriteInit /\ DirectoryInit /\ ServerInit /\ CliInit /\ ProviderInit

\* The LLM client's steps; the batch engine stands still.
NextRetry ==
    \/ with_retry /\ UNCHANGED <<batchVars, configVars, discoveryVars, fileVars, writeVars,
                                 directoryVars, serverVars, cliVars, providerVars>>
    \/ summarize /\ UNCHANGED <<batchVars, configVars, discoveryVars, fileVars, writeVars,
                                directoryVars, serverVars, cliVars, providerVars>>
    \/ AttemptFunc /\ UNCHANGED <<batchVars, configVars, discoveryVars, fileVars, writeVars,
                                  directoryVars, serverVars, cliVars, providerVars>>
    \/ AttemptMakeRequest /\ UNCHANGED <<batchVars, configVars, discoveryVars, fileVars,
                                         writeVars, directoryVars, serverVars, cliVars,
                                         providerVars>>
    \/ WakeUp /\ UNCHANGED <<batchVars, configVars, discoveryVars, fileVars, writeVars,
                             directoryVars, serverVars, cliVars, providerVars>>
    \/ Complete /\ UNCHANGED <<batchVars, configVars, discoveryVars, fileVars, writeVars,
                               directoryVars, serverVars, cliVars, providerVars>>

\* The batch engine's steps; the LLM client stands still.
NextBatch ==
    \/ summarize_files_batch /\ UNCHANGED <<retryVars, configVars, discoveryVars, fileVars,
                                            writeVars, directoryVars, serverVars, cliVars,
                                            providerVars>>
    \/ (\E k \in DOMAIN task_pc : TaskStart(k)) /\ UNCHANGED <<retryVars, configVars,
                                                               discoveryVars, fileVars,
                                                               writeVars, directoryVars,
                                                               serverVars, cliVars, providerVars>>
    \/ (\E k \in DOMAIN task_pc : TaskRead(k)) /\ UNCHANGED <<retryVars, configVars,
                                                              discoveryVars, fileVars, writeVars,
                                                              directoryVars, serverVars, cliVars,
                                                              providerVars>>
    \/ (\E k \in DOMAIN task_pc : TaskSummarized(k)) /\ UNCHANGED <<retryVars, configVars,
                                                                    discoveryVars, fileVars,
                                                                    writeVars, directoryVars,
                                                                    serverVars, cliVars,
                                                                    providerVars>>
    \/ GatherDone /\ UNCHANGED <<retryVars, configVars, discoveryVars, fileVars, writeVars,
                                 directoryVars, serverVars, cliVars, providerVars>>
    \/ PauseDone /\ UNCHANGED <<retryVars, configVars, discoveryVars, fileVars, writeVars,
                                directoryVars, serverVars, cliVars, providerVars>>
    \/ BatchComplete /\ UNCHANGED <<retryVars, configVars, discoveryVars, fileVars, writeVars,
                                    directoryVars, serverVars, cliVars, providerVars>>

\* The ConfigManager's steps; the rest stands still.
NextConfig ==
    \/ get_config /\ UNCHANGED <<retryVars, batchVars, discoveryVars, fileVars, writeVars,
                                 directoryVars, serverVars, cliVars, providerVars>>
    \/ update_config /\ UNCHANGED <<retryVars, batchVars, discoveryVars, fileVars, writeVars,
                                    directoryVars, serverVars, cliVars, providerVars>>
    \/ reset_config /\ UNCHANGED <<retryVars, batchVars, discoveryVars, fileVars, writeVars,
                                   directoryVars, serverVars, cliVars, providerVars>>
    \/ SetEnvironment /\ UNCHANGED <<retryVars, batchVars, discoveryVars, fileVars, writeVars,
                                     directoryVars, serverVars, cliVars, providerVars>>
    \/ EditConfigFile /\ UNCHANGED <<retryVars, batchVars, discoveryVars, fileVars, writeVars,
                                     directoryVars, serverVars, cliVars, providerVars>>
    \/ NewProcess /\ UNCHANGED <<retryVars, batchVars, discoveryVars, fileVars, writeVars,
                                 directoryVars, serverVars, cliVars, providerVars>>

\* The ConfigManager of one process after another: within a process neither
\* the environment nor config.json change but by the ConfigManager itself.
NextProcess ==
    \/ StartProcess /\ UNCHANGED <<retryVars, batchVars, discoveryVars, fileVars, writeVars,
                                   directoryVars, serverVars, cliVars, providerVars>>
    \/ get_config /\ UNCHANGED <<retryVars, batchVars, discoveryVars, fileVars, writeVars,
                                 directoryVars, serverVars, cliVars, providerVars>>
    \/ update_config /\ UNCHANGED <<retryVars, batchVars, discoveryVars, fileVars, writeVars,
                                    directoryVars, serverVars, cliVars, providerVars>>
    \/ reset_config /\ UNCHANGED <<retryVars, batchVars, discoveryVars, fileVars, writeVars,
                                   directoryVars, serverVars, cliVars, providerVars>>

\* The steps of find_code_files; the rest stands still.
NextDiscovery ==
    \/ find_code_files /\ UNCHANGED <<retryVars, batchVars, configVars, fileVars, writeVars,
                                      directoryVars, serverVars, cliVars, providerVars>>
    \/ ScanItem /\ UNCHANGED <<retryVars, batchVars, configVars, fileVars, writeVars,
                               directoryVars, serverVars, cliVars, providerVars>>
    \/ PermissionDenied /\ UNCHANGED <<retryVars, batchVars, configVars, fileVars, writeVars,
                                       directoryVars, serverVars, cliVars, providerVars>>
    \/ EndOfDirectory /\ UNCHANGED <<retryVars, batchVars, configVars, fileVars, writeVars,
                                     directoryVars, serverVars, cliVars, providerVars>>
    \/ ReturnCodeFiles /\ UNCHANGED <<retryVars, batchVars, configVars, fileVars, writeVars,
                                      directoryVars, serverVars, cliVars, providerVars>>

\* The steps of a summarize_file call; the rest stands still.
NextFile ==
    \/ summarize_file /\ UNCHANGED <<retryVars, batchVars, configVars, discoveryVars, writeVars,
                                     directoryVars, serverVars, cliVars, providerVars>>
    \/ StatFile /\ UNCHANGED <<retryVars, batchVars, configVars, discoveryVars, writeVars,
                               directoryVars, serverVars, cliVars, providerVars>>
    \/ ReadFile /\ UNCHANGED <<retryVars, batchVars, configVars, discoveryVars, writeVars,
                               directoryVars, serverVars, cliVars, providerVars>>
    \/ CallLLM /\ UNCHANGED <<retryVars, batchVars, configVars, discoveryVars, writeVars,
                              directoryVars, serverVars, cliVars, providerVars>>

\* summarize_directory with the discovery and the write it awaits, and
\* direct calls of write_summaries_to_file; the rest stands still.
NextDirectory ==
    \/ summarize_directory /\ UNCHANGED <<retryVars, batchVars, configVars, fileVars, serverVars,
                                          cliVars, providerVars>>
    \/ ScanItem /\ UNCHANGED <<retryVars, batchVars, configVars, fileVars, writeVars,
                               directoryVars, serverVars, cliVars, providerVars>>
    \/ PermissionDenied /\ UNCHANGED <<retryVars, batchVars, configVars, fileVars, writeVars,
                                       directoryVars, serverVars, cliVars, providerVars>>
    \/ EndOfDirectory /\ UNCHANGED <<retryVars, batchVars, configVars, fileVars, writeVars,
                                     directoryVars, serverVars, cliVars, providerVars>>
    \/ ReturnCodeFiles /\ UNCHANGED <<retryVars, batchVars, configVars, fileVars, writeVars,
                                      directoryVars, serverVars, cliVars, providerVars>>
    \/ DirectoryProceed /\ UNCHANGED <<retryVars, batchVars, configVars, discoveryVars, fileVars,
                                       serverVars, cliVars, providerVars>>
    \/ write_summaries_to_file /\ UNCHANGED <<retryVars, batchVars, configVars, discoveryVars,
                                              fileVars, serverVars, cliVars, providerVars>>
    \/ WriteOpen /\ UNCHANGED <<retryVars, batchVars, configVars, discoveryVars, fileVars,
                                serverVars, cliVars, providerVars>>
    \/ WriteResult /\ UNCHANGED <<retryVars, batchVars, configVars, discoveryVars, fileVars,
                                  serverVars, cliVars, providerVars>>
    \/ WriteClose /\ UNCHANGED <<retryVars, batchVars, configVars, discoveryVars, fileVars,
                                 serverVars, cliVars, providerVars>>

\* The server's tool calls, with the configuration they read and change.
NextServer ==
    \/ StartServer /\ UNCHANGED <<retryVars, batchVars, discoveryVars, fileVars, writeVars,
                                  directoryVars, cliVars, providerVars>>
    \/ call_summarize_file /\ UNCHANGED <<retryVars, batchVars, discoveryVars, fileVars,
                                          writeVars, directoryVars, cliVars, providerVars>>
    \/ call_summarize_directory /\ UNCHANGED <<retryVars, batchVars, discoveryVars, fileVars,
                                               writeVars, directoryVars, cliVars, providerVars>>
    \/ call_configure /\ UNCHANGED <<retryVars, batchVars, discoveryVars, fileVars, writeVars,
                                     directoryVars, cliVars, providerVars>>
    \/ call_unknown_tool /\ UNCHANGED <<retryVars, batchVars, discoveryVars, fileVars, writeVars,
                                        directoryVars, cliVars, providerVars>>

\* summarize_file on a GeminiLLM: the file's steps and the retry loop of the
\* summarize call it awaits.
NextFileLLM ==
    \/ FileWithClient /\ UNCHANGED <<batchVars, configVars, discoveryVars, writeVars,
                                     directoryVars, serverVars, cliVars, providerVars>>
    \/ StatFile /\ UNCHANGED <<retryVars, batchVars, configVars, discoveryVars, writeVars,
                               directoryVars, serverVars, cliVars, providerVars>>
    \/ ReadFile /\ UNCHANGED <<retryVars, batchVars, configVars, discoveryVars, writeVars,
                               directoryVars, serverVars, cliVars, providerVars>>
    \/ AwaitSummarize /\ UNCHANGED <<batchVars, configVars, discoveryVars, writeVars,
                                     directoryVars, serverVars, cliVars, providerVars>>
    \/ AttemptMakeRequest /\ UNCHANGED <<batchVars, configVars, discoveryVars, fileVars,
                                         writeVars, directoryVars, serverVars, cliVars,
                                         providerVars>>
    \/ WakeUp /\ UNCHANGED <<batchVars, configVars, discoveryVars, fileVars, writeVars,
                             directoryVars, serverVars, cliVars, providerVars>>
    \/ SummarizeEnds /\ UNCHANGED <<batchVars, configVars, discoveryVars, writeVars,
                                    directoryVars, serverVars, cliVars, providerVars>>

\* The command line processes, with the configuration they read and change.
NextCli ==
    \/ StartCli /\ UNCHANGED <<retryVars, batchVars, discoveryVars, fileVars, writeVars,
                               directoryVars, serverVars, providerVars>>
    \/ config_set /\ UNCHANGED <<retryVars, batchVars, discoveryVars, fileVars, writeVars,
                                 directoryVars, serverVars, providerVars>>

\* A batch and the provider calls of its tasks.
NextBatchLive ==
    \/ BatchWithProvider
          /\ UNCHANGED <<retryVars, configVars, discoveryVars, fileVars, writeVars,
                         directoryVars, serverVars, cliVars>>
    \/ (\E k \in DOMAIN task_pc : TaskStart(k))
          /\ UNCHANGED <<providerVars, retryVars, configVars, discoveryVars, fileVars,
                         writeVars, directoryVars, serverVars, cliVars>>
    \/ (\E k \in DOMAIN task_pc : TaskRead(k))
          /\ UNCHANGED <<providerVars, retryVars, configVars, discoveryVars, fileVars,
                         writeVars, directoryVars, serverVars, cliVars>>
    \/ (\E k \in DOMAIN task_pc : TaskProviderCall(k))
          /\ UNCHANGED <<retryVars, configVars, discoveryVars, fileVars, writeVars,
                         directoryVars, serverVars, cliVars>>
    \/ GatherDone
          /\ UNCHANGED <<providerVars, retryVars, configVars, discoveryVars, fileVars,
                         writeVars, directoryVars, serverVars, cliVars>>
    \/ PauseDone
          /\ UNCHANGED <<providerVars, retryVars, configVars, discoveryVars, fileVars,
                         writeVars, directoryVars, serverVars, cliVars>>
    \/ ProviderBatchComplete
          /\ UNCHANGED <<retryVars, configVars, discoveryVars, fileVars, writeVars,
                         directoryVars, serverVars, cliVars>>
    \/ BatchRaised
          /\ UNCHANGED <<retryVars, configVars, discoveryVars, fileVars, writeVars,
                         directoryVars, serverVars, cliVars>>

\* The steps the event loop takes by itself once a batch is under way: a
\* task that is ready runs, gather returns, the pause ends.
BatchProgress ==
    \/ (\E k \in DOMAIN task_pc : TaskStart(k))
          /\ UNCHANGED <<providerVars, retryVars, configVars, discoveryVars, fileVars,
                         writeVars, directoryVars, serverVars, cliVars>>
    \/ (\E k \in DOMAIN task_pc : TaskRead(k))
          /\ UNCHANGED <<providerVars, retryVars, configVars, discoveryVars, fileVars,
                         writeVars, directoryVars, serverVars, cliVars>>
    \/ (\E k \in DOMAIN task_pc : TaskProviderCall(k))
          /\ UNCHANGED <<retryVars, configVars, discoveryVars, fileVars, writeVars,
                         directoryVars, serverVars, cliVars>>
    \/ GatherDone
          /\ UNCHANGED <<providerVars, retryVars, configVars, discoveryVars, fileVars,
                         writeVars, directoryVars, serverVars, cliVars>>
    \/ PauseDone
          /\ UNCHANGED <<providerVars, retryVars, configVars, discoveryVars, fileVars,
                         writeVars, directoryVars, serverVars, cliVars>>

Next ==
    \/ NextRetry \/ NextBatch \/ NextConfig \/ NextDiscovery \/ NextFile \/ NextDirectory
    \/ NextServer \/ NextCli \/ NextFileLLM \/ NextBatchLive

Spec == Init /\ [][Next]_vars

SpecRetry == Init /\ [][NextRetry]_vars

SpecBatch == Init /\ [][NextBatch]_vars

SpecConfig == Init /\ [][NextConfig]_vars

SpecProcess == Init /\ [][NextProcess]_vars

SpecDiscovery == Init /\ [][NextDiscovery]_vars

SpecFile == Init /\ [][NextFile]_vars

SpecDirectory == Init /\ [][NextDirectory]_vars

SpecServer == Init /\ [][NextServer]_vars

SpecCli == Init /\ [][NextCli]_vars

SpecFileLLM == Init /\ [][NextFileLLM]_vars

\* Each provider call returns or fails, and the event loop runs what is ready.
SpecBatchLive == Init /\ [][NextBatchLive]_vars /\ WF_vars(BatchProgress)

(***************************************************************************)
(* Claims about the retry executor and the LLM client.                     *)
(***************************************************************************)
\* C1: with_retry invokes the operation at most max_retries+1 times, at
\* indices 0..max_retries; a return carries the operation's value and comes
\* with the first success (every other invocation failed); a failure of the
\* attempt with index max_retries is propagated with no sleep after it,
\* retryable or not.
C1_AtMostMaxRetriesPlusOne ==
    /\ calls <= retry_config.max_retries + 1
    /\ r_pc = "attempt" => attempt \in 0..retry_config.max_retries /\ calls = attempt
    /\ r_pc = "returned" => r_result \in SummaryTexts /\ calls = failures + 1
    /\ failures = retry_config.max_retries + 1 =>
          /\ r_pc = "raised"
          /\ Len(sleeps) = retry_config.max_retries
          /\ r_caller = "direct" => r_error = last_failure

\* The attempt with index 3 of a with_retry call with max_retries = 3 failed
\* with a retryable LLMError and the failure was raised.
C1_Witness ==
    /\ r_pc = "raised"
    /\ r_caller = "direct"
    /\ retry_config.max_retries = 3
    /\ failures = 4
    /\ last_failure.cls = "LLMError"
    /\ last_failure.is_retryable = TRUE

\* The claim's non-retryable errors.
NonRetryableError(e) ==
    \/ e.cls = "LLMError" /\ e.is_retryable = FALSE
    \/ /\ e.cls # "LLMError"
       /\ \/ Contains(KW_token_limit, Lower(e.msg))
          \/ Contains(KW_too_large, Lower(e.msg))

\* C2: once an attempt of with_retry has failed with a non-retryable error,
\* the call has raised: the only sleeps are those that followed the earlier
\* failures, the failing invocation is the last one, and the error
\* propagated is that failure.
C2_NonRetryablePropagatesAtOnce ==
    (r_caller = "direct" /\ last_failure # NoException /\ NonRetryableError(last_failure)) =>
        /\ r_pc = "raised"
        /\ Len(sleeps) = failures - 1
        /\ calls = failures
        /\ r_error = last_failure

\* The first attempt failed with the non-LLM exception "Request TOO LARGE"
\* while three retries were left.
C2_Witness ==
    /\ r_caller = "direct"
    /\ r_pc = "raised"
    /\ retry_config.max_retries = 3
    /\ calls = 1
    /\ sleeps = <<>>
    /\ last_failure = OtherException(<<"R","e","q","u","e","s","t"," ","T","O","O"," ","L","A","R","G","E">>)

\* C3: when with_retry returns after k failures, there were exactly k sleeps
\* and k+1 invocations, k <= max_retries, and the operation's value is
\* returned; under the default RetryConfig every sleep lies in [0, 10] s.
C3_SleepsBeforeSuccess ==
    /\ r_pc = "returned" =>
          /\ failures <= retry_config.max_retries
          /\ Len(sleeps) = failures
          /\ calls = failures + 1
          /\ r_result \in SummaryTexts
    /\ retry_config = DefaultRetryConfig =>
          \A i \in 1..Len(sleeps) : 0 <= sleeps[i] /\ sleeps[i] <= 10000

\* Two retryable failures, then success, under the default RetryConfig.
C3_Witness ==
    /\ r_pc = "returned"
    /\ r_caller = "direct"
    /\ retry_config = DefaultRetryConfig
    /\ failures = 2
    /\ Len(sleeps) = 2
    /\ calls = 3

\* C4: after a response without text that carries a block reason, summarize
\* has raised the non-retryable LLMError "Content blocked: {reason}", the
\* provider was called once and nothing was slept.
C4_BlockedFailsWithoutRetry ==
    (r_caller = "summarize" /\ last_response.kind = "blocked") =>
        /\ r_pc = "raised"
        /\ r_error = LLMError(PFX_blocked \o last_response.text, FALSE)
        /\ provider_calls = 1
        /\ sleeps = <<>>

\* The claim's classification of a provider exception's text.
ClaimRetryable(text) ==
    LET t == Lower(text) IN
    \/ Contains(KW_quota, t) \/ Contains(KW_rate_limit, t)
    \/ ~(\/ Contains(KW_token, t) \/ Contains(KW_too_large, t)
         \/ Contains(KW_api_key, t) \/ Contains(KW_authentication, t))

ClaimPrefix(text) ==
    LET t == Lower(text) IN
    CASE Contains(KW_quota, t) \/ Contains(KW_rate_limit, t) -> PFX_rate
      [] OTHER ->
         CASE Contains(KW_token, t) \/ Contains(KW_too_large, t) -> PFX_large
           [] OTHER ->
              CASE Contains(KW_api_key, t) \/ Contains(KW_authentication, t) -> PFX_auth
                [] OTHER -> PFX_api

\* C5: after the provider raised an exception with text t, the error of the
\* attempt is the LLMError of the claim's precedence (its message prefix and
\* its retryability), and with_retry acted on that retryability: the call
\* has raised exactly when the error is non-retryable or the attempt was the
\* last one.
C5_ClassificationByPrecedence ==
    (r_caller = "summarize" /\ last_response.kind = "raise") =>
        /\ last_failure = LLMError(ClaimPrefix(last_response.text) \o last_response.text,
                                   ClaimRetryable(last_response.text))
        /\ r_pc = "raised" <=>
              (~ClaimRetryable(last_response.text)
               \/ failures = retry_config.max_retries + 1)
        /\ r_pc = "raised" => r_error = last_failure

\* The provider raised "token quota out" (both "quota" and "token"): the
\* error is the retryable rate-limit error and with_retry sleeps.
C5_Witness ==
    /\ r_caller = "summarize"
    /\ r_pc = "sleeping"
    /\ last_response.kind = "raise"
    /\ last_response.text = <<"t","o","k","e","n"," ","q","u","o","t","a"," ","o","u","t">>
    /\ last_failure.is_retryable = TRUE

(***************************************************************************)
(* Claims about summarize_files_batch.                                     *)
(***************************************************************************)
ErrorKinds == {"file_too_large", "decode_error", "processing_error", "batch_error"}

\* C6: the call never raises; the list it returns has one dict per input
\* file; the entry of a file is decided by that file's task alone: the dict
\* its task returned, or for a task that raised the batch_error dict of that
\* file; every failure is tagged with an error kind, and the entries of the
\* batches already gathered are there whatever failed before.
C6_FailureIsolation ==
    /\ b_pc # "raised"
    /\ Len(all_results) <= Len(file_paths)
    /\ b_pc = "done" => Len(all_results) = Len(file_paths)
    /\ b_pc = "pause" => Len(all_results) = b_i + batch_size
    /\ \A k \in 1..Len(all_results) :
          /\ all_results[k].kind = "result"
          /\ all_results[k].error \in ErrorKinds \cup {None}
          /\ task_out[k].kind = "result" => all_results[k] = task_out[k]
          /\ task_out[k].kind = "exception" =>
                all_results[k] = FileResult(file_paths[k],
                                            "Batch processing failed: " \o task_out[k].summary,
                                            "batch_error")
          /\ all_results[k].error = None =>
                all_results[k].summary = SummaryOf(file_paths[k])

\* A call over three files or more returned: the task of the first file
\* raised, the second file was too large, and a file of a later batch was
\* summarized.
C6_Witness ==
    /\ b_pc = "done"
    /\ batch_size = 2
    /\ Len(file_paths) >= 3
    /\ task_out[1].kind = "exception"
    /\ all_results[1].error = "batch_error"
    /\ all_results[2].error = "file_too_large"
    /\ all_results[3].error = None

\* C7: the k-th entry of all_results carries the k-th input path, at every
\* moment of the call and in the list returned.
C7_InputOrder ==
    /\ \A k \in 1..Len(all_results) :
          k <= Len(file_paths) /\ all_results[k].file_path = file_paths[k]
    /\ b_pc = "done" => Len(all_results) = Len(file_paths)

\* A batch of three returned although its tasks completed in the order 3, 1, 2
\* and all returned a dict.
C7_Witness ==
    /\ b_pc = "done"
    /\ Len(file_paths) = 3
    /\ completion = <<3, 1, 2>>
    /\ \A k \in 1..3 : task_out[k].kind = "result"

CeilDiv(n, b) == (n + b - 1) \div b

\* C8: a call over n >= 1 files that returned dispatched ceil(n/b) batches,
\* all of size b but the last, which holds the remaining 1..b files, and
\* slept once after each batch but the last: after batches 1..ceil(n/b)-1.
\* A pause in progress is never the pause of the last batch.
C8_ChunksAndPauses ==
    LET n == Len(file_paths)
        c == CeilDiv(n, batch_size)
    IN
    /\ (b_pc = "done" /\ n >= 1) =>
          /\ Len(chunks) = c
          /\ \A j \in 1..(c - 1) : chunks[j] = batch_size
          /\ chunks[c] = n - batch_size * (c - 1)
          /\ chunks[c] \in 1..batch_size
          /\ pauses = [j \in 1..(c - 1) |-> j]
    /\ b_pc = "pause" => Len(pauses) = Len(chunks) /\ Len(chunks) < c
    /\ b_pc = "gather" => Len(pauses) = Len(chunks) - 1

\* Five files with batch_size 2: chunks of 2, 2, 1 and pauses after chunks 1 and 2.
C8_Witness ==
    /\ b_pc = "done"
    /\ Len(file_paths) = 5
    /\ batch_size = 2
    /\ chunks = <<2, 2, 1>>
    /\ pauses = <<1, 2>>

\* C9: a task exists only when every task of the earlier batches is done and
\* the pauses that follow those batches have elapsed; during a pause no task
\* is in flight; at most batch_size tasks are in flight together.
C9_SequentialBatches ==
    /\ \A k \in DOMAIN task_pc :
          task_pc[k] # "none" =>
             LET N == (k - 1) \div batch_size IN
             /\ \A m \in 1..(N * batch_size) : task_pc[m] = "done"
             /\ N * batch_size <= Len(all_results)
             /\ Len(pauses) >= N
             /\ b_pc = "pause" => Len(pauses) > N
    /\ b_pc \in {"pause", "done", "idle"} => InFlight = {}
    /\ InFlight \subseteq BatchPositions(b_i, batch_size, Len(file_paths))
    /\ Cardinality(InFlight) <= batch_size
    /\ max_inflight <= batch_size

\* The second batch of a call with batch_size 2 is in flight at full width,
\* one of its tasks awaits the LLM.
C9_Witness ==
    /\ b_pc = "gather"
    /\ batch_size = 2
    /\ b_i = 2
    /\ Cardinality(InFlight) = 2
    /\ task_pc[3] = "summarizing"

(***************************************************************************)
(* Claims about the ConfigManager.                                         *)
(***************************************************************************)
\* The bounds of a Config, as the claim states them.
WithinBounds(c) ==
    /\ c.api_key = "" \/ Len(c.api_key) >= 10
    /\ 0 < c.port /\ c.port <= 65535
    /\ c.summary_options.detail_level \in {"low", "medium", "high"}
    /\ 0 < c.summary_options.max_length /\ c.summary_options.max_length <= 2000

\* A candidate dict one of whose values (given, or defaulted when the key is
\* absent) violates a bound.
ViolatesBound(d) ==
    LET so == GetOr(d.summary_options, SummaryDict(<<>>, <<>>)) IN
    \/ d.api_key # <<>> /\ Len(d.api_key[1]) \in 1..9
    \/ d.port # <<>> /\ (d.port[1] <= 0 \/ d.port[1] > 65535)
    \/ so.detail_level # <<>> /\ so.detail_level[1] \notin {"low", "medium", "high"}
    \/ so.max_length # <<>> /\ (so.max_length[1] <= 0 \/ so.max_length[1] > 2000)

\* C10: a cached Config is within the bounds, and so is every Config
\* returned; a get_config or update_config whose candidate dict violates a
\* bound has raised and returned nothing, and the cache does not hold the
\* candidate: after get_config it is still empty, after update_config it
\* holds a Config within the bounds that differs from the candidate.
C10_CachedConfigWithinBounds ==
    /\ cached # <<>> => WithinBounds(cached[1])
    /\ c_returned # <<>> => WithinBounds(c_returned[1])
    /\ (c_op \in {"get_config", "update_config"} /\ c_candidate # <<>>
        /\ ViolatesBound(c_candidate[1])) =>
          /\ c_raised
          /\ c_returned = <<>>
          /\ c_op = "get_config" => cached = <<>>
          /\ cached # <<>> => ConfigAsDict(cached[1]) # c_candidate[1]

\* update_config({port: 0}) raised while the cache holds a Config with a
\* 10-character api_key.
C10_Witness ==
    /\ c_op = "update_config"
    /\ c_raised
    /\ c_candidate # <<>>
    /\ c_candidate[1].port = <<0>>
    /\ cached # <<>>
    /\ Len(cached[1].api_key) = 10

\* The first get_config of a process returned: the cache was empty, a dict
\* was built from the file and the environment, and Config accepted it.
FirstLoadReturned ==
    /\ c_op = "get_config"
    /\ c_candidate # <<>>
    /\ ~c_raised
    /\ c_returned # <<>>

\* What config.json stores: its dict, or no key at all when there is no
\* readable file.
Stored == IF config_file.state = "json" THEN config_file.data ELSE EmptyDict

StoredOptions == GetOr(Stored.summary_options, SummaryDict(<<>>, <<>>))

\* The environment overlay and the defaults of a first get_config, with
\* `key_given` telling when GOOGLE_API_KEY counts as given.
EnvOverlay(key_given) ==
    FirstLoadReturned =>
        LET r == c_returned[1] IN
        /\ key_given => r.api_key = env_api_key[1]
        /\ (~key_given /\ Stored.api_key = <<>>) => r.api_key = ""
        /\ env_port # <<>> => ParseInt(env_port[1]) = <<r.port>>
        /\ (env_port = <<>> /\ Stored.port = <<>>) => r.port = 24312
        /\ StoredOptions.detail_level = <<>> => r.summary_options.detail_level = "medium"
        /\ StoredOptions.max_length = <<>> => r.summary_options.max_length = 500

\* C11 as stated: on the first get_config of a process, GOOGLE_API_KEY, once
\* set, is the api_key returned in place of the stored one; PORT, once set,
\* is the port returned; what neither the environment nor the file gives
\* takes its default.
C11_SetEnvOverridesFile == EnvOverlay(env_api_key # <<>>)

\* C11, amended: on the first get_config of a process that returns,
\* GOOGLE_API_KEY set to a non-empty value is the api_key returned in place
\* of the stored one, while an unset or empty GOOGLE_API_KEY leaves the
\* stored api_key; PORT, once set, is the port returned; what neither the
\* environment nor the file gives takes its default.
C11_NonEmptyEnvOverridesFile ==
    /\ EnvOverlay(env_api_key # <<>> /\ env_api_key[1] # "")
    /\ (FirstLoadReturned /\ env_api_key \in {<<>>, <<"">>} /\ Stored.api_key # <<>>) =>
          c_returned[1].api_key = Stored.api_key[1]

\* The first get_config returned the environment's key and port although
\* config.json stores another api_key.
C11_Witness ==
    /\ FirstLoadReturned
    /\ env_api_key = <<"env-key-0123456789">>
    /\ env_port = <<<<"8","0","8","0">>>>
    /\ Stored.api_key = <<"0123456789">>
    /\ c_returned[1].api_key = "env-key-0123456789"
    /\ c_returned[1].port = 8080
    /\ c_returned[1].summary_options = [detail_level |-> "low", max_length |-> 500]

\* C12: every get_config that follows a successful one, with no
\* update_config or reset_config in between, returns the Config the first
\* one returned, whatever happened to the environment and to config.json.
C12_GetConfigIdempotent ==
    (c_op = "get_config" /\ c_first # <<>>) =>
        /\ ~c_raised
        /\ c_returned = c_first
        /\ cached = c_first

\* A get_config served from the cache: the Config first returned has no
\* api_key while GOOGLE_API_KEY is set by now and config.json stores a key.
C12_Witness ==
    /\ c_op = "get_config"
    /\ c_candidate = <<>>
    /\ c_first # <<>>
    /\ c_returned = c_first
    /\ c_first[1].api_key = ""
    /\ env_api_key = <<"env-key-0123456789">>
    /\ Stored.api_key = <<"0123456789">>

\* The Config update_config starts from: the cache, or what get_config loads
\* into an empty cache.
ConfigBefore ==
    IF cached # <<>> THEN cached[1]
    ELSE Config(get_config_dict(config_file, env_api_key, env_port)[1])[1]

\* A summary_options dict as a SummaryOptions: the keys it lacks take their defaults.
OptionsOf(d) ==
    [detail_level |-> GetOr(d.detail_level, "medium"), max_length |-> GetOr(d.max_length, 500)]

\* C13: a successful update_config(updates) leaves, and returns, a Config in
\* which each top-level field named in updates has the value supplied and each
\* other top-level field has the value it had before the call; the
\* get_config that follows returns that Config.
C13_UpdateFrame ==
    [][ /\ (c_op' = "update_config" /\ ~c_raised') =>
              LET u == c_updates'[1]
                  before == ConfigBefore
                  after == cached'[1]
              IN /\ c_returned' = cached'
                 /\ after.api_key = (IF u.api_key # <<>> THEN u.api_key[1] ELSE before.api_key)
                 /\ after.port = (IF u.port # <<>> THEN u.port[1] ELSE before.port)
                 /\ after.summary_options =
                       (IF u.summary_options # <<>> THEN OptionsOf(u.summary_options[1])
                        ELSE before.summary_options)
        /\ (c_op = "update_config" /\ ~c_raised /\ c_op' = "get_config") =>
              /\ ~c_raised'
              /\ c_returned' = cached
      ]_vars

\* update_config({port: 65535}) succeeded on a Config loaded from a file
\* that stores an api_key and a detail level.
C13_Witness ==
    /\ c_op = "update_config"
    /\ ~c_raised
    /\ c_updates = <<ConfigDict(<<>>, <<65535>>, <<>>)>>
    /\ cached = <<[api_key |-> "0123456789", port |-> 65535,
                   summary_options |-> [detail_level |-> "low", max_length |-> 500]]>>

\* The defaults, as the claim lists them.
ClaimDefaults ==
    [api_key |-> "", port |-> 24312,
     summary_options |-> [detail_level |-> "medium", max_length |-> 500]]

\* C14: reset_config, from any state, leaves the defaults in the cache and no
\* config.json; the get_config that follows returns exactly the defaults and
\* there is still no config.json.
C14_ResetYieldsDefaults ==
    [][ /\ c_op' = "reset_config" =>
              /\ ~c_raised'
              /\ cached' = <<ClaimDefaults>>
              /\ config_file'.state = "absent"
        /\ (c_op = "reset_config" /\ c_op' = "get_config") =>
              /\ ~c_raised'
              /\ c_returned' = <<ClaimDefaults>>
              /\ config_file'.state = "absent"
      ]_vars

\* A get_config right after reset_config returned the defaults while
\* GOOGLE_API_KEY and PORT are set.
C14_Witness ==
    /\ c_op = "get_config"
    /\ c_candidate = <<>>
    /\ c_returned = <<ClaimDefaults>>
    /\ env_api_key = <<"env-key-0123456789">>
    /\ env_port = <<<<"8","0","8","0">>>>
    /\ config_file.state = "absent"

\* update_config wrote config.json.
UpdateWroteFile == c_op = "update_config" /\ ~c_raised /\ c_io = "ok"

\* C15 as stated: whenever update_config wrote config.json while
\* GOOGLE_API_KEY was set, the api_key in the file is the empty string.
C15_SetEnvKeyNeverWritten ==
    (UpdateWroteFile /\ env_api_key # <<>>) =>
        /\ config_file.state = "json"
        /\ config_file.data.api_key = <<"">>

\* C15, amended: whenever update_config wrote config.json while
\* GOOGLE_API_KEY was set to a non-empty value, the api_key in the file is
\* the empty string.
C15_NonEmptyEnvKeyNeverWritten ==
    (UpdateWroteFile /\ env_api_key # <<>> /\ env_api_key[1] # "") =>
        /\ config_file.state = "json"
        /\ config_file.data.api_key = <<"">>

\* update_config({api_key: "0123456789"}) wrote the file while
\* GOOGLE_API_KEY was set: the cache holds the new key, the file an empty one.
C15_Witness ==
    /\ UpdateWroteFile
    /\ env_api_key = <<"env-key-0123456789">>
    /\ c_updates = <<ConfigDict(<<"0123456789">>, <<>>, <<>>)>>
    /\ cached[1].api_key = "0123456789"
    /\ config_file.data.api_key = <<"">>

\* C16: when the write of config.json fails during update_config, the call
\* returns the new Config without raising, the cache holds the updated
\* values, and config.json is as it was before the call.
C16_FailedWriteKeepsFile ==
    [][ (c_op' = "update_config" /\ c_io' \in {"open_fails", "write_fails"}) =>
            /\ ~c_raised'
            /\ c_returned' = cached'
            /\ cached' = Config(c_candidate'[1])
            /\ config_file' = config_file
      ]_vars

(***************************************************************************)
(* Claims about find_code_files.                                           *)
(***************************************************************************)
\* The directories above a path, the root left out.
AncestorsOf(path) == { SubSeq(path, 1, k) : k \in 1..(Len(path) - 1) }

\* A directory discovery has to prune: its root-relative path matches a
\* .gitignore pattern or its bare name is in the skip-directory set.
Pruned(dir) ==
    \/ should_ignore(d_patterns, relative_path(dir))
    \/ dir[Len(dir)] \in SKIP_DIRECTORIES

\* The files the claim expects: a lowercased extension of the table, a path
\* no pattern matches, no pruned directory above.
ExpectedFiles ==
    { e.path : e \in { x \in d_tree :
                         /\ x.kind = "file"
                         /\ Lower(suffix(x.path[Len(x.path)])) \in EXTENSION_TO_LANGUAGE
                         /\ ~should_ignore(d_patterns, relative_path(x.path))
                         /\ \A a \in AncestorsOf(x.path) : ~Pruned(a) } }

ReturnedFiles == { code_files[i] : i \in 1..Len(code_files) }

\* C17: when no directory was denied, find_code_files returns exactly the
\* expected files, each once; for a.py, b.txt, c.js and node_modules/d.py
\* that is a.py and c.js.
C17_ReturnsExactlyCodeFiles ==
    (d_pc = "returned" /\ d_denied = {}) =>
        /\ ReturnedFiles = ExpectedFiles
        /\ Len(code_files) = Cardinality(ExpectedFiles)

C19_ErrorSparesSiblings ==
    d_pc = "returned" =>
        \A er \in d_errors :
           \A e \in Children(d_tree, er.dir) :
              ( /\ e.path # er.item
                /\ e.kind = "file"
                /\ Lower(suffix(e.path[Len(e.path)])) \in EXTENSION_TO_LANGUAGE
                /\ ~should_ignore(d_patterns, relative_path(e.path)) )
              => e.path \in ReturnedFiles

(***************************************************************************)
(* Claims about summarize_file.                                            *)
(***************************************************************************)
\* C20: llm.summarize is called only for a file of at most 204800 bytes
\* whose content decodes as UTF-8; a file of more than 204800 bytes that can
\* be stat'ed returns file_too_large, unread and with no LLM call; a file of
\* exactly 204800 bytes is not returned as too large; a file within the
\* limit that is opened and does not decode returns decode_error with no
\* LLM call.
C20_LlmOnlyForSmallUtf8 ==
    /\ f_llm_calls > 0 => f_file.size <= 204800 /\ f_file.content = "utf8"
    /\ f_read => f_file.size <= 204800
    /\ f_pc \in {"reading", "summarizing"} => f_file.size <= 204800
    /\ (f_pc = "returned" /\ f_file.size > 204800 /\ f_file.access # "missing") =>
          /\ f_result.error = "file_too_large"
          /\ ~f_read
          /\ f_llm_calls = 0
    /\ (f_pc = "returned" /\ f_file.size = 204800) => f_result.error # "file_too_large"
    /\ (f_pc = "returned" /\ f_file.size <= 204800 /\ f_file.access = "ok"
        /\ f_file.content = "invalid") =>
          /\ f_result.error = "decode_error"
          /\ f_llm_calls = 0

\* A file of exactly 204800 bytes was read and summarized.
C20_Witness ==
    /\ f_pc = "returned"
    /\ f_file = [size |-> 204800, content |-> "utf8", access |-> "ok"]
    /\ f_read
    /\ f_llm_calls = 1
    /\ f_result.error = None

\* C30: in one process whose environment sets GOOGLE_API_KEY (to a
\* non-empty value), every get_config that returns, after any sequence of
\* get_config, update_config and reset_config, gives the environment's value
\* as api_key.
C30_EnvKeyPrecedesAlways ==
    (c_op = "get_config" /\ ~c_raised /\ env_api_key # <<>> /\ env_api_key[1] # "") =>
        c_returned[1].api_key = env_api_key[1]

\* The path a block is claimed to show: relative to the root for a
\* descendant of it, as stored otherwise.
IsDescendant(path, root) ==
    /\ Len(path) > Len(root)
    /\ \A i \in 1..Len(root) : path[i] = root[i]

ExpectedShown(path, root) ==
    IF IsDescendant(path, root)
    THEN relative_path([i \in 1..(Len(path) - Len(root)) |-> path[Len(root) + i]])
    ELSE relative_path(path)

\* C21: a summarize_directory whose discovery found no code file returns the
\* empty list with no task having invoked the LLM client and the output file
\* as it was (absent or with its old content); and during any
\* summarize_directory the output file differs from what it was only when an
\* output path was given and the batch has given one result per file found.
C21_EmptyDiscoveryTouchesNothing ==
    /\ (o_pc = "returned" /\ code_files = <<>>) =>
          /\ o_results = <<>>
          /\ o_llm_calls = 0
          /\ w_target = w_before
    /\ (w_caller = "summarize_directory" /\ w_target # w_before) =>
          /\ o_output_path # <<>>
          /\ o_pc \in {"writing", "returned"}
          /\ Len(o_results) = Len(code_files)

\* summarize_directory returned for a tree that was scanned, with an output
\* path given at which a file was already present.
C21_Witness ==
    /\ o_pc = "returned"
    /\ code_files = <<>>
    /\ d_visited # {}
    /\ o_output_path # <<>>
    /\ w_before.exists
    /\ w_target = w_before

\* C22: when write_summaries_to_file has returned, the target exists and holds
\* exactly two texts per result, in list order: the result's path relative to
\* the root (the stored path when it is not under the root) followed by a
\* newline, then the summary followed by two newlines; nothing of the old
\* content is left.
C22_WritesExactlyBlocks ==
    w_pc = "closed" =>
        /\ w_target.exists
        /\ Len(w_target.chunks) = 2 * Len(w_results)
        /\ \A k \in 1..Len(w_results) :
              /\ w_target.chunks[2 * k - 1] =
                    ExpectedShown(w_results[k].file_path, w_root) \o <<"\n">>
              /\ w_target.chunks[2 * k] = w_results[k].summary \o <<"\n", "\n">>

\* Two results, one under the root and one outside it, were written over a
\* file that had content.
C22_Witness ==
    /\ w_pc = "closed"
    /\ w_caller = "direct"
    /\ Len(w_results) = 2
    /\ w_before.chunks # <<>>
    /\ IsDescendant(w_results[1].file_path, w_root)
    /\ ~IsDescendant(w_results[2].file_path, w_root)
    /\ w_target.chunks[1] = <<"a",".","p","y","\n">>
    /\ w_target.chunks[3] = <<"o","t","h","e","r","/","c",".","p","y","\n">>

ToolNames == {"summarize_file", "summarize_directory", "configure"}

\* C23: every tool call ends with call_tool returning text: no exception
\* leaves the dispatcher, whatever a handler raised comes back as
\* "Error: {message}", and so does a name that is no tool.
C23_AlwaysTextResponse ==
    s_tool # "none" =>
        /\ ~s_propagated
        /\ s_response # <<>>
        /\ s_exception # <<>> => s_response = <<"Error: ">> \o s_exception[1]
        /\ s_tool \notin ToolNames => s_response = <<"Error: ", "Unknown tool: ", s_tool>>

\* An unknown tool was called and answered with the error text.
C23_Witness ==
    /\ s_tool = "summarise_file"
    /\ s_exception # <<>>
    /\ s_response = <<"Error: ", "Unknown tool: ", "summarise_file">>

\* The call was summarize_file with a path that names nothing.
MissingFileCall ==
    /\ s_tool = "summarize_file"
    /\ is_given(s_args.file_path)
    /\ path_kind(value_of(s_args.file_path)) = "missing"

NotFoundResponse == <<"Error: ", "File not found: ", value_of(s_args.file_path)>>

\* C24, as claimed: summarize_file for a path that does not exist answers
\* "Error: File not found: {path}" and invokes neither the summarization nor
\* the LLM, whatever the configuration.
C24_MissingFileAlwaysNotFound ==
    MissingFileCall =>
        /\ s_response = NotFoundResponse
        /\ ~s_summarized
        /\ ~s_llm_invoked

\* C24, amended: summarize_file for a path that does not exist invokes
\* neither the summarization nor the LLM; it answers
\* "Error: File not found: {path}" when _ensure_llm gave the call a client
\* (one was held, or the configuration loads with a non-empty api_key), and
\* the error of _ensure_llm otherwise.
C24_MissingFileNotFoundWithClient ==
    MissingFileCall =>
        /\ ~s_summarized
        /\ ~s_llm_invoked
        /\ s_client # <<>> => s_response = NotFoundResponse
        /\ s_client = <<>> =>
              s_response \in
                 { <<"Error: ", "API key not configured. Use the configure tool to set it.">>,
                   <<"Error: ", "invalid literal for int() with base 10">>,
                   <<"Error: ", "validation error for Config">> }

\* A missing path was asked for while a client was at hand.
C24_Witness ==
    /\ MissingFileCall
    /\ s_client # <<>>
    /\ s_response = NotFoundResponse

\* C25: once a configure call that gave api_key K has succeeded, a
\* summarize_file or summarize_directory call uses no client but one built
\* with K, and for a non-empty K it has such a client.
C25_ClientBuiltWithConfiguredKey ==
    (s_tool \in {"summarize_file", "summarize_directory"} /\ s_key # <<>>) =>
        /\ s_client # <<>> => s_client[1] = s_key[1]
        /\ s_key[1] # "" => s_client # <<>>

\* A summarize_file call ran with the client of the key configured in this
\* process, which started with another key in config.json.
C25_Witness ==
    /\ s_tool = "summarize_file"
    /\ s_key = <<"abcdefghij-2">>
    /\ s_client = <<"abcdefghij-2">>
    /\ llm = <<"abcdefghij-2">>

\* No argument of the configure call holds a non-empty value.
NoNonEmptyInputs(arguments) ==
    /\ arguments.api_key \in {Absent, Null, Val("")}
    /\ arguments.port \in {Absent, Null}
    /\ arguments.detail_level \in {Absent, Null, Val("")}
    /\ arguments.max_length \in {Absent, Null}

\* C26: a configure call whose arguments hold no non-empty value leaves
\* config.json, the cached client and a filled configuration cache as they
\* were, and (when the configuration loads) answers with the current
\* settings, the api_key shown as "***" when set and "Not set" when empty.
C26_EmptyInputsChangeNothing ==
    [][ (s_tool' = "configure" /\ NoNonEmptyInputs(s_args')) =>
            /\ config_file' = config_file
            /\ llm' = llm
            /\ cached # <<>> => cached' = cached
            /\ s_exception' = <<>> =>
                  /\ s_response'[1] = "Current configuration:\n"
                  /\ s_response'[3] = IF cached'[1].api_key # "" THEN "***" ELSE "Not set"
      ]_vars

\* The non-empty api_key values the call could show.
KeysInPlay ==
    (IF not_none(s_args.api_key) THEN {value_of(s_args.api_key)} ELSE {})
    \cup (IF cached # <<>> THEN {cached[1].api_key} ELSE {})
    \cup (IF env_api_key # <<>> THEN {env_api_key[1]} ELSE {})
    \cup (IF config_file.state = "json" /\ config_file.data.api_key # <<>>
          THEN {config_file.data.api_key[1]} ELSE {})

\* C27: no text of a configure response is an api_key (the one given, the
\* configured one, the environment's or the file's), and a call that gives a
\* valid api_key answers exactly as the same call with another valid api_key.
C27_ResponseHidesApiKey ==
    s_tool = "configure" =>
        /\ \A i \in DOMAIN s_response :
              \A key \in KeysInPlay \ {""} : s_response[i] # key
        /\ (not_none(s_args.api_key) /\ Len(value_of(s_args.api_key)) >= MIN_API_KEY_LENGTH)
              => s_twin = s_response

\* A configure call gave a valid api_key and was answered with the updated
\* fields.
C27_Witness ==
    /\ s_tool = "configure"
    /\ s_args.api_key = Val("0123456789")
    /\ s_exception = <<>>
    /\ s_response = <<"Configuration updated:\n", "- api_key: ", "***", "\n">>
    /\ s_twin = s_response

\* The directory a summarize_directory call names.
DirectoryOf(arguments) ==
    IF is_given(arguments.directory) THEN value_of(arguments.directory) ELSE "."

\* C28: a summarize_directory call that had a client answers
\* "Error: Directory not found: ..." exactly when the path is missing or no
\* directory, and for a directory it runs the orchestration and answers with
\* the summaries or "No code files found to summarize.".
C28_ExistingDirectoryIsSummarized ==
    (s_tool = "summarize_directory" /\ s_client # <<>>) =>
        IF path_kind(DirectoryOf(s_args)) = "dir"
        THEN /\ s_summarized
             /\ s_exception = <<>>
             /\ \/ s_response = <<"No code files found to summarize.">>
                \/ s_response[1] = "Summarized "
        ELSE s_response = <<"Error: ", "Directory not found: ", DirectoryOf(s_args)>>

\* C29: a `config set` command that found a configuration to start from and
\* was given --detail-level or --max-length leaves a configuration that shows
\* the values given, with the other summary option, the api_key and the port
\* as they were when no flag names them; a command given no flag at all
\* prints "No changes specified." and leaves config.json as it was.
C29_SetAppliesSummaryOptions ==
    (cli_pc = "exited" /\ cli_before # <<>>) =>
        /\ (cli_flags.detail_level # <<>> /\ cli_flags.max_length = <<>>
            /\ cli_flags.api_key = <<>> /\ cli_flags.port = <<>>) =>
              /\ cached # <<>>
              /\ cached[1] = [cli_before[1] EXCEPT
                                !.summary_options.detail_level = cli_flags.detail_level[1]]
        /\ (cli_flags.max_length # <<>> /\ max_length_ok(cli_flags.max_length[1])
            /\ cli_flags.detail_level = <<>>
            /\ cli_flags.api_key = <<>> /\ cli_flags.port = <<>>) =>
              /\ cached # <<>>
              /\ cached[1] = [cli_before[1] EXCEPT
                                !.summary_options.max_length = cli_flags.max_length[1]]
        /\ cli_flags = CliFlags(<<>>, <<>>, <<>>, <<>>) =>
              /\ cli_output = "No changes specified."
              /\ config_file = cli_file_before

\* C32, as claimed: every duration with_retry sleeps is non-negative and at
\* most max_delay.
C32_SleepWithinMaxDelay ==
    \A i \in 1..Len(sleeps) : 0 <= sleeps[i] /\ sleeps[i] <= retry_config.max_delay

\* The capped backoff value of the attempt with index a.
ClaimDelay(cfg, a) ==
    IF cfg.initial_delay * Pow(cfg.backoff_factor, a) < cfg.max_delay
    THEN cfg.initial_delay * Pow(cfg.backoff_factor, a)
    ELSE cfg.max_delay

\* C32, amended: the i-th duration slept is non-negative and lies within 20%
\* of min(initial_delay * backoff_factor^(i-1), max_delay) (to the
\* millisecond), so it never exceeds 1.2 * max_delay.
C32_SleepWithinJitterOfCap ==
    \A i \in 1..Len(sleeps) :
        /\ 0 <= sleeps[i]
        /\ 8 * ClaimDelay(retry_config, i - 1) <= 10 * sleeps[i] + 9
        /\ 10 * sleeps[i] <= 12 * ClaimDelay(retry_config, i - 1)
        /\ 10 * sleeps[i] <= 12 * retry_config.max_delay

\* A second sleep whose backoff value reached the cap and whose jitter took
\* it above max_delay.
C32_Witness ==
    /\ r_pc = "sleeping"
    /\ Len(sleeps) = 2
    /\ retry_config.initial_delay * retry_config.backoff_factor > retry_config.max_delay
    /\ sleeps[2] > retry_config.max_delay

\* Whether the claim counts what the provider did as a retryable failure: an
\* exception by its text, a response without text and without block reason;
\* a blocked response is not retryable.
ClaimRetryableOutcome(po) ==
    \/ po.kind = "empty"
    \/ po.kind = "raise" /\ ClaimRetryable(po.text)

ClaimFailure(po) == po.kind \in {"empty", "raise", "blocked"}

\* C31: when llm.summarize fails inside summarize_file, summarize_file
\* returns the processing_error dict with "Error processing file: {message}";
\* a failure that ended the call after a retryable error came at provider
\* call max_retries+1, and a non-retryable provider failure is the last call
\* (the first and only one when it comes first): nothing is slept after it.
C31_LlmFailureAfterRetries ==
    /\ (f_pc = "returned" /\ r_pc = "raised") =>
          f_result = llm_error_result(PathOf(1), r_error)
    /\ (f_pc \in {"awaiting", "returned"} /\ r_pc = "raised"
        /\ ClaimRetryableOutcome(last_response)) =>
          provider_calls = retry_config.max_retries + 1
    /\ (f_pc \in {"awaiting", "returned"} /\ ClaimFailure(last_response)
        /\ ~ClaimRetryableOutcome(last_response)) =>
          /\ r_pc = "raised"
          /\ Len(sleeps) = provider_calls - 1

\* The updates the claim counts as failing validation.
ClaimInvalid(u) ==
    \/ u.api_key # <<>> /\ Len(u.api_key[1]) \in 1..9
    \/ u.port # <<>> /\ ~(0 < u.port[1] /\ u.port[1] <= 65535)
    \/ /\ u.summary_options # <<>>
       /\ \/ /\ u.summary_options[1].detail_level # <<>>
             /\ u.summary_options[1].detail_level[1] \notin {"low", "medium", "high"}
          \/ /\ u.summary_options[1].max_length # <<>>
             /\ ~(0 < u.summary_options[1].max_length[1]
                  /\ u.summary_options[1].max_length[1] <= 2000)

C34_ClientMatchesCachedKey ==
    /\ llm # <<>> =>
          /\ llm[1] # ""
          /\ cached # <<>>
          /\ cached[1].api_key = llm[1]
    /\ s_summarized => (s_client # <<>> /\ s_client[1] # "")

\* A client built from the key of config.json is still held after a
\* configure call that changed the detail level only.
C34_Witness ==
    /\ llm = <<"0123456789">>
    /\ s_tool = "configure"
    /\ s_exception = <<>>
    /\ ~is_given(s_args.api_key)
    /\ cached[1].summary_options.detail_level = "high"
    /\ cached[1].api_key = "0123456789"

\* What get_config() gives in a fresh process (empty cache) started now.
FreshLoad ==
    LET d == get_config_dict(config_file, env_api_key, env_port)
    IN IF d = <<>> THEN <<>> ELSE Config(d[1])

RECURSIVE SumOf(_)
SumOf(seq) == IF seq = <<>> THEN 0 ELSE Head(seq) + SumOf(Tail(seq))

\* One task was created for every file, every task is done, and the list
\* returned has the files' results in the files' order.
ClaimEachOnce ==
    /\ SumOf(chunks) = Len(file_paths)
    /\ Len(all_results) = Len(file_paths)
    /\ \A k \in DOMAIN file_paths :
          /\ task_pc[k] = "done"
          /\ all_results[k].file_path = file_paths[k]

ClaimCallsBounded == \A k \in DOMAIN task_calls : task_calls[k] <= llm_max_retries + 1

\* A batch dispatched after another begins at a larger offset.
ClaimAdvances == (chunks # <<>> /\ Len(chunks') > Len(chunks)) => b_i' > b_i

\* C36: summarize_files_batch terminates for every finite file list and
\* every batch_size >= 1 when each provider call returns or fails: every file
\* is summarized exactly once, the provider is called at most max_retries + 1
\* times per file, and the loop over the batches always advances. With a
\* batch_size of 0 the call returns no result list.
C36_BatchTerminates ==
    /\ [](batch_size >= 1 => /\ ClaimCallsBounded
                             /\ b_pc # "raised"
                             /\ b_pc = "done" => ClaimEachOnce)
    /\ [](batch_size = 0 => b_pc # "done" /\ all_results = <<>>)
    /\ [][ClaimAdvances]_vars
    /\ (batch_size >= 1 /\ b_pc \in {"gather", "pause"}) ~> (b_pc = "done")

\* A list of three files went through three batches of one, two pauses and
\* a task whose every attempt failed, and the call returned.
C36_Witness ==
    /\ b_pc = "done"
    /\ batch_size = 1
    /\ Len(file_paths) = MaxFilesLive
    /\ Len(chunks) = MaxFilesLive
    /\ Len(pauses) = MaxFilesLive - 1
    /\ llm_max_retries >= 1
    /\ \E k \in DOMAIN task_calls : task_calls[k] = llm_max_retries + 1
    /\ \E k \in DOMAIN task_calls : task_calls[k] = 1

====
